---- MODULE Spec2Model ----
(***************************************************************************)
(* Model of the selenium TwitterService (src/unnamed/part_003): the rate   *)
(* governor checkRateLimit, the dedup ledger processedTweetIds with        *)
(* clearProcessedIds, and the scroll-discovery loop findContent with its   *)
(* per-item extraction, thread walk and acceptance test.                   *)
(*                                                                         *)
(* A selenium element handle is a live reference: what a read of it yields *)
(* is decided by the page at the time of the read.  The model therefore    *)
(* keeps only the number of handles a pass still has to visit and draws    *)
(* the content read from each handle when the handle is processed.         *)
(***************************************************************************)
EXTENDS Integers, Sequences, FiniteSets, TLC

(***************************************************************************)
(* Bounds of the model.  The loop constants of findContent are kept by     *)
(* name and scaled down from the source values given in the comments.      *)
(***************************************************************************)
NumIds == 2                 \* distinct tweet ids the feed can show
MaxThread == 3              \* sibling containers behind the head of a thread walk
MaxVisible == 2             \* visible tweet elements a query returns at most
MaxPassItems == 2           \* visible tweet elements of the pass of SpecPass
MaxSiblings == 1            \* following sibling tweets a thread walk can meet
MaxHeight == 1              \* document.body.scrollHeight ranges over 0..MaxHeight
MaxTime == 9                \* last instant of the clock (rate governor)
THREADS_NEEDED == 2         \* part_003:87, 10 in the source
MAX_SCROLL_ATTEMPTS == 4    \* part_003:88, 100 in the source
MAX_NO_NEW_TWEETS == 2      \* part_003:90, 5 in the source
SAME_CONTENT_LIMIT == 3     \* part_003:511, the literal 10 in the source
MIN_TOTAL_WORDS == 4        \* part_003:92, 15 in the source
MAX_PROCESSED_IDS == 3      \* part_003:13 and part_001:32, 10000 in the source
CLEANUP_EVERY == 2          \* part_001:664, every 100 checks in the source
PageSize == 2               \* new tweets one list check can find on the page
MaxFresh == 10              \* tweet ids the ledgers meet in all
NumFolders == 2             \* entries of config.folders
MaxJsTicks == 1             \* cron ticks of the scheduler of cron.js
MaxTicks == 1               \* cron tick callbacks that can be in flight at once
maxRetries == 2             \* part_003:701, 3 in the source
maxRetriesLatest == 1       \* part_001:288, 3 in the source
MaxFailures == 11           \* consecutiveFailures is followed up to here
MaxSent == 4                \* calls of sendToDiscord that are followed
MaxSignals == 3             \* signals and error events that arrive
LowNumbers == 2             \* file numbers 1..LowNumbers a folder can hold
NearWide == 1               \* and those this close to the first wide number
MaxUploads == 2             \* uploads into the folder that are followed
PAD_WIDTH == 3              \* github.js:105 and the \d{3} of line 152
REFRESH_FAILURES == 5       \* part_001:110
RECOVERY_FAILURES == 10     \* part_001:717
MAX_RETRIES == 1            \* part_001:821, 3 in the source
RATE_LIMIT_DELAY == 3       \* part_003:9, 60000 ms in the source

RETRY_DELAY == 5000         \* part_001:822 and cron.js:9
MAX_SEEN_TWEETS == 1000     \* part_003:193
SEEN_KEPT == 500            \* part_003:503, slice(-500)

Ids == 1..NumIds
Heights == 0..MaxHeight

(***************************************************************************)
(* Text is a sequence of characters; "w" stands for any non-blank          *)
(* character and " " for any white space.                                  *)
(***************************************************************************)
Words(n) == [i \in 1..(2 * n - 1) |-> IF i % 2 = 1 THEN "w" ELSE " "]

\* combinedText.split(/\s+/).filter((word) => word.length > 0).length
WordCount(t) ==
  Cardinality({i \in 1..Len(t) : t[i] # " " /\ (i = 1 \/ t[i - 1] = " ")})

\* combinedText.trim().length === 0
TrimIsEmpty(t) == \A i \in 1..Len(t) : t[i] = " "

\* "\n\nQuoted Tweet:\n": white space, two words, white space
QuoteSeparator == <<" ", "w", " ", "w", " ">>

(***************************************************************************)
(* A permalink https://x.com/<author>/status/<id>[?query].  author = 0 and *)
(* id = 0 stand for an empty path segment; NoUrl is the empty string the   *)
(* code keeps when no permalink anchor could be read.                      *)
(***************************************************************************)
NoUrl == [author |-> 0, id |-> 0, query |-> FALSE]
Permalink(a, i, q) == [author |-> a, id |-> i, query |-> q]

\* url.split("/status/")[1]?.split("?")[0]; 0 is the falsy result
TweetIdOfMutant(url) == 1
TweetIdOf(url) == url.id

\* href.split("/")[3]
AuthorOf(url) == url.author

(***************************************************************************)
(* extractTweetData.  An element read el gives, for every field, what the  *)
(* read of that field yields; a field whose read throws shows the default  *)
(* its catch block leaves (empty text, empty list, empty url).             *)
(***************************************************************************)
NullData ==
  [null |-> TRUE, text |-> <<>>, links |-> <<>>, images |-> <<>>,
   videos |-> <<>>, url |-> NoUrl, timestamp |-> ""]

ExtractTweetDataMutant(el) ==
  IF (el.text = <<>> /\ el.quoted = <<>>) \/ el.images = <<>>
  THEN NullData
  ELSE [null |-> FALSE,
        text |-> IF el.quoted # <<>>
                 THEN el.text \o QuoteSeparator \o el.quoted
                 ELSE el.text,
        links |-> el.links, images |-> el.images, videos |-> el.videos,
        url |-> el.url, timestamp |-> el.timestamp]
ExtractTweetData(el) ==
  IF el.text = <<>> /\ el.quoted = <<>>
  THEN NullData
  ELSE [null |-> FALSE,
        text |-> IF el.quoted # <<>>
                 THEN el.text \o QuoteSeparator \o el.quoted
                 ELSE el.text,
        links |-> el.links, images |-> el.images, videos |-> el.videos,
        url |-> el.url, timestamp |-> el.timestamp]

\* lines 424-429: the walk goes on only when both authors are known and equal
SameAuthorMutant(originalAuthor, nextAuthor) ==
  originalAuthor # 0 /\ nextAuthor # 0
SameAuthor(originalAuthor, nextAuthor) ==
  originalAuthor # 0 /\ nextAuthor # 0 /\ originalAuthor = nextAuthor

(***************************************************************************)
(* The thread walk of findContent: siblings are the reads of the tweets in *)
(* the following sibling containers, in document order; the end of the     *)
(* sequence is a container that is missing or holds no tweet.              *)
(***************************************************************************)
RECURSIVE ThreadWalk(_, _, _)
ThreadWalk(threadTweets, originalHref, siblings) ==
  IF siblings = <<>> THEN threadTweets
  ELSE LET nextTweet == Head(siblings)
           nextHref == nextTweet.url
           nextTweetData == ExtractTweetData(nextTweet)
       IN IF originalHref = NoUrl \/ nextHref = NoUrl THEN threadTweets
          ELSE IF ~SameAuthor(AuthorOf(originalHref), AuthorOf(nextHref))
               THEN threadTweets
          ELSE IF nextTweetData.null \/ nextTweetData.text = <<>>
               THEN threadTweets
          ELSE ThreadWalk(Append(threadTweets, nextTweetData), originalHref,
                          Tail(siblings))

RECURSIVE CombinedText(_)
CombinedText(threadTweets) ==
  IF threadTweets = <<>> THEN <<>>
  ELSE Head(threadTweets).text \o CombinedText(Tail(threadTweets))

HasMediaOrLinks(threadTweets) ==
  \E k \in 1..Len(threadTweets) :
     \/ Len(threadTweets[k].links) > 0
     \/ Len(threadTweets[k].images) > 0
     \/ Len(threadTweets[k].videos) > 0

\* wordCount >= MIN_TOTAL_WORDS || hasMediaOrLinks
AcceptsMutant(threadTweets) ==
  WordCount(CombinedText(threadTweets)) >= MIN_TOTAL_WORDS
Accepts(threadTweets) ==
  \/ WordCount(CombinedText(threadTweets)) >= MIN_TOTAL_WORDS
  \/ HasMediaOrLinks(threadTweets)

(***************************************************************************)
(* Insertion-ordered sets (JavaScript Set) as sequences without repeats.   *)
(***************************************************************************)
SetHas(s, x) == \E k \in 1..Len(s) : s[k] = x
SetAddMutant(s, x) == s
SetAdd(s, x) == IF SetHas(s, x) THEN s ELSE Append(s, x)
Elems(s) == {s[k] : k \in 1..Len(s)}

\* Array.from(set).slice(Math.floor(length / 2))
KeepRecentHalfMutant(s) == SubSeq(s, 1, Len(s) - (Len(s) \div 2))
KeepRecentHalf(s) == SubSeq(s, (Len(s) \div 2) + 1, Len(s))

\* Array.from(set).slice(-n)
SliceLast(s, n) == IF n >= Len(s) \/ n = 0 THEN s
                   ELSE SubSeq(s, Len(s) - n + 1, Len(s))

RECURSIVE SetAddAll(_, _)
SetAddAll(s, xs) ==
  IF xs = <<>> THEN s ELSE SetAddAll(SetAdd(s, Head(xs)), Tail(xs))

ClearProcessedIdsMutant(ids) == ids
ClearProcessedIds(ids) ==
  IF Len(ids) > MAX_PROCESSED_IDS THEN KeepRecentHalf(ids) ELSE ids

\* this.processedTweetIds.has(tweetId), line 370
IsProcessedMutant(ids, tweetId) == FALSE
IsProcessed(ids, tweetId) == SetHas(ids, tweetId)

\* scrollAttempts++ before the continue of line 319
AttemptsAfterFailedQueryMutant(n) == n
AttemptsAfterFailedQuery(n) == n + 1

\* lines 520-523: noNewTweetsCount after the valid-content check of a pass
NoNewAfterMutant(accepted, heightSame, count) ==
  IF heightSame THEN count + 1 ELSE count
NoNewAfter(accepted, heightSame, count) ==
  IF accepted THEN 0
  ELSE IF heightSame THEN count + 1
  ELSE count

\* noNewTweetsCount >= MAX_NO_NEW_TWEETS, line 524
NoNewBreakMutant(count) == count > MAX_NO_NEW_TWEETS
NoNewBreak(count) == count >= MAX_NO_NEW_TWEETS


(***************************************************************************)
(* The feed the discovery loop is driven with: the list shows the tweets   *)
(* 1..NumIds of one author in document order, odd ones short and even     *)
(* ones long enough for the word threshold, each possibly followed by a    *)
(* reply of another account.  Reading a field of an element can fail,      *)
(* which leaves the field at its default.                                  *)
(***************************************************************************)
ElementRead(t, l, u) ==
  [text |-> t, quoted |-> <<>>, links |-> l, images |-> <<>>,
   videos |-> <<>>, url |-> u, timestamp |-> ""]

TweetText(i) == IF i % 2 = 1 THEN Words(1) ELSE Words(MIN_TOTAL_WORDS)

\* what the reads of the element of tweet i can yield
TweetReads(i) ==
  {ElementRead(t, l, u) :
     t \in {<<>>, TweetText(i)}, l \in {<<>>, <<Permalink(1, i, FALSE)>>},
     u \in {Permalink(1, i, FALSE)}
              \cup (IF i = 1 THEN {Permalink(1, i, TRUE)} ELSE {})}

LoopElements ==
  {ElementRead(Words(1), <<>>, NoUrl),
   ElementRead(Words(1), <<Permalink(1, 0, FALSE)>>, Permalink(1, 0, FALSE))}
    \cup UNION {TweetReads(i) : i \in Ids}

ForeignReply ==
  ElementRead(Words(1), <<>>, Permalink(2, NumIds + 1, FALSE))

\* the tweets found in the sibling containers that follow tweet i, at most n
RECURSIVE SiblingsOf(_, _)
SiblingsOf(i, n) ==
  IF n = 0 THEN {<<>>}
  ELSE {<<>>, <<ForeignReply>>}
         \cup (IF i + 1 \in Ids
               THEN {<<e>> \o rest :
                       e \in {r \in TweetReads(i + 1) : ~r.url.query},
                       rest \in SiblingsOf(i + 1, n - 1)}
               ELSE {})


VARIABLES
  processedTweetIds,   \* this.processedTweetIds, in insertion order
  pc,                  \* position of the findContent invocation
  collectedContent,    \* collectedContent
  scrollAttempts,      \* scrollAttempts
  lastHeight,          \* lastHeight
  noNewTweetsCount,    \* noNewTweetsCount
  validTweetsCount,    \* validTweetsCount
  lastSeenTweetIds,    \* lastSeenTweetIds, in insertion order
  sameContentCount,    \* sameContentCount
  previousValidCount,  \* previousValidCount of the running pass
  currentHeight,       \* currentHeight of the running pass
  tweetElements,       \* handles of the running pass not yet visited
  currentTweetIds,     \* currentTweetIds of the running pass
  newTweetsFound,      \* newTweetsFound of the running pass
  exit,                \* how the invocation left the loop
  hist,                \* observations about the run (no effect on it)
  clock,               \* Date.now()
  lastRequestTime,     \* this.lastRequestTime
  ratePc,              \* position of the checkRateLimit call
  now,                 \* the local now of checkRateLimit
  wakeAt,              \* earliest instant the sleep of checkRateLimit ends
  lastReturn,          \* instant the latest checkRateLimit call returned
  prevReturn,          \* instant the call before that returned
  obs,                 \* observations about the tweet element visited last
  walk,                \* a thread walk: the DOM it met and the thread it built
  trackerIds,          \* TwitterListTracker.processedTweetIds, insertion order
  checkCount,          \* checkCount of startTracking, modulo CLEANUP_EVERY
  pageAdds,            \* ids the running list check has added
  nextId,              \* the next tweet id not met before
  cleared,             \* the ledger clearProcessedIds has just returned for
  ledgerBefore,        \* that ledger as clearProcessedIds found it
  scheduledJob,        \* scheduledJob of the scheduler: "null" or "job"
  isJobRunning,        \* isJobRunning of the scheduler
  runs,                \* the initial run (0) and the tick callbacks (1..)
  lastTick,            \* what the latest cron tick did
  driver,              \* this.driver of the service: "null" or "up"
  isInitialized,       \* this.isInitialized of the service
  fetch,               \* the fetchTweets call: position, attempt, record
  stopCalled,          \* stopCronJob has been called
  trk,                 \* the list tracker: position, counters, record
  shut,                \* the shutdown of the tracker process
  gh                   \* the repository folder and the upload into it

loopVars == <<processedTweetIds, pc, collectedContent, scrollAttempts,
              lastHeight, noNewTweetsCount, validTweetsCount,
              lastSeenTweetIds, sameContentCount, previousValidCount,
              currentHeight, tweetElements, currentTweetIds, newTweetsFound,
              exit, hist>>
rateVars == <<clock, lastRequestTime, ratePc, now, wakeAt, lastReturn,
              prevReturn>>
passVars == <<obs>>
walkVars == <<walk>>
fetchVars == <<driver, isInitialized, fetch>>
ledgerVars == <<trackerIds, checkCount, pageAdds, nextId, cleared,
                ledgerBefore>>
cronVars == <<scheduledJob, isJobRunning, runs, lastTick>>
procVars == <<stopCalled, trk, shut, gh>>
auxVars == <<passVars, walkVars, procVars, fetchVars, ledgerVars, cronVars>>
vars == <<loopVars, rateVars, auxVars>>

NoTime == 0 - 1

\* the run is still the stalled session of a single known tweet while ok holds
KeepStall(h, ok) ==
  [h EXCEPT !.stallSession = @ /\ ok,
            !.stallId = IF h.stallSession /\ ok THEN @ ELSE 0]

InitHist ==
  [passes |-> 0, waitTimedOut |-> FALSE, scrollFailed |-> FALSE,
   acceptedIds |-> {}, dupAccepted |-> FALSE, passAccepted |-> FALSE,
   prevPassHeight |-> NoTime, heightStallRun |-> 0, anyStallRun |-> 0,
   stallSession |-> FALSE, stallId |-> 0, queryFailed |-> FALSE,
   handlesFrom |-> 0]

(***************************************************************************)
(* What is recorded about the tweet element the item loop handled last.    *)
(***************************************************************************)
NoElement == ElementRead(<<>>, <<>>, NoUrl)

InitObs ==
  [el |-> NoElement, tweet |-> NoElement, visited |-> FALSE,
   stale |-> "none", attempts |-> 0,
   known |-> FALSE, accepted |-> FALSE, ledgerGrew |-> FALSE,
   error |-> FALSE, noUrlSeen |-> FALSE, errorSeen |-> FALSE]

\* the pipeline runs: 0 is runInitialPipeline, the others are callbacks of
\* the scheduled job
Runs == 0..MaxTicks

\* no fetchTweets call yet.  i is the counter of the navigation loop, inits
\* the attempts of the call that ran init, cleanups the failed attempts
\* behind which the catch tore the session down, accepted the ids findContent
\* has added to the ledger so far
NoFetch ==
  [pc |-> "idle", attempt |-> 0, i |-> 0, failures |-> 0, outcome |-> "none",
   inits |-> {}, cleanups |-> {}, accepted |-> {}, acceptedTwice |-> FALSE,
   rejectedAfterReinit |-> FALSE]

IdleRun ==
  [pc |-> "idle", folder |-> 0, retryCount |-> 0, failed |-> {},
   called |-> {}, result |-> "none", githubResult |-> "none",
   posted |-> "none", delays |-> <<>>,
   last |-> [outcome |-> "none", attempts |-> 0, result |-> "none",
             githubResult |-> "none", posted |-> "none"]]

NoWalk == [done |-> FALSE, head |-> NoElement, siblings |-> <<>>,
           threadTweets |-> <<>>]

\* trk: the tracker as its constructor leaves it (part_001:27-38), with
\* the locals of startTracking and the record of what it did; shut: the
\* tracker process before any signal (part_001:759)
\* a repository folder with the names of its resources files, before an
\* upload; a name is the digit string between "resources-" and ".md"
FolderWith(names) ==
  [folder |-> names, before |-> {}, nextNumber |-> 0, result |-> "none",
   targetedExisting |-> FALSE, uploads |-> 0]

StartState ==
  /\ processedTweetIds = <<>>
  /\ pc = "idle"
  /\ collectedContent = <<>>
  /\ scrollAttempts = 0
  /\ lastHeight = 0
  /\ noNewTweetsCount = 0
  /\ validTweetsCount = 0
  /\ lastSeenTweetIds = <<>>
  /\ sameContentCount = 0
  /\ previousValidCount = 0
  /\ currentHeight = 0
  /\ tweetElements = 0
  /\ currentTweetIds = <<>>
  /\ newTweetsFound = 0
  /\ exit = ""
  /\ hist = InitHist
  /\ clock = RATE_LIMIT_DELAY
  /\ lastRequestTime = 0
  /\ ratePc = "idle"
  /\ now = 0
  /\ wakeAt = 0
  /\ lastReturn = NoTime
  /\ prevReturn = NoTime
  /\ obs = InitObs
  /\ walk = NoWalk
  /\ trackerIds = <<>>
  /\ checkCount = 0
  /\ pageAdds = 0
  /\ nextId = 1
  /\ cleared = "none"
  /\ ledgerBefore = <<>>
  /\ scheduledJob = "null"
  /\ isJobRunning = FALSE
  /\ runs = [r \in Runs |-> IdleRun]
  /\ lastTick = "none"
  /\ driver = "null"
  /\ isInitialized = FALSE
  /\ fetch = NoFetch
  /\ stopCalled = FALSE
  /\ trk = [pc |-> "start", retryCount |-> 0, consecutiveFailures |-> 0,
            stamped |-> FALSE, exhausted |-> FALSE, exhaustedRun |-> 0,
            tweets |-> <<>>, sent |-> <<>>, failedSends |-> {},
            baseline |-> {}, reseen |-> FALSE]
  /\ shut = [isShuttingDown |-> FALSE, pc |-> "running",
             forceExitTimeout |-> FALSE, fallbacks |-> 0, signals |-> 0,
             sequences |-> 0, exitBy |-> "none"]

Init ==
  /\ StartState
  /\ gh = FolderWith({})

(***************************************************************************)
(* findContent, lines 186-223: the locals, clearProcessedIds, the focus    *)
(* script (its failure is caught and logged) and the bounded wait for the  *)
(* first tweet.                                                            *)
(***************************************************************************)
FindContentBegin ==
  /\ pc \in {"idle", "returned", "thrown"}
  /\ processedTweetIds' = ClearProcessedIds(processedTweetIds)
  /\ collectedContent' = <<>>
  /\ scrollAttempts' = 0
  /\ lastHeight' = 0
  /\ noNewTweetsCount' = 0
  /\ validTweetsCount' = 0
  /\ lastSeenTweetIds' = <<>>
  /\ sameContentCount' = 0
  /\ previousValidCount' = 0
  /\ currentHeight' = 0
  /\ tweetElements' = 0
  /\ currentTweetIds' = <<>>
  /\ newTweetsFound' = 0
  /\ exit' = ""
  /\ pc' = "initialWait"
  /\ hist' = [InitHist EXCEPT
                !.acceptedIds =
                   IF ClearProcessedIds(processedTweetIds) = processedTweetIds
                   THEN hist.acceptedIds ELSE {},
                !.dupAccepted = hist.dupAccepted,
                !.stallSession = TRUE]
  /\ UNCHANGED rateVars
  /\ UNCHANGED auxVars

\* driver.wait(until.elementLocated(...), INITIAL_LOAD_TIMEOUT), lines 211-223
InitialWait ==
  /\ pc = "initialWait"
  /\ \E located \in BOOLEAN :
       IF located
       THEN /\ pc' = "loop"
            /\ UNCHANGED <<exit, hist>>
       ELSE /\ pc' = "thrown"
            /\ exit' = "initialWait"
            /\ hist' = [hist EXCEPT !.waitTimedOut = TRUE,
                                    !.stallSession = FALSE, !.stallId = 0]
  /\ UNCHANGED <<processedTweetIds, collectedContent, scrollAttempts,
                 lastHeight, noNewTweetsCount, validTweetsCount,
                 lastSeenTweetIds, sameContentCount, previousValidCount,
                 currentHeight, tweetElements, currentTweetIds,
                 newTweetsFound>>
  /\ UNCHANGED rateVars
  /\ UNCHANGED auxVars

\* the while condition, lines 225-235, and the return of line 537
LoopTest ==
  /\ pc = "loop"
  /\ IF scrollAttempts < MAX_SCROLL_ATTEMPTS
        /\ validTweetsCount < THREADS_NEEDED
     THEN /\ pc' = "scroll"
          /\ previousValidCount' = validTweetsCount
          /\ hist' = [hist EXCEPT !.passes = @ + 1, !.queryFailed = FALSE]
          /\ exit' = exit
     ELSE /\ pc' = "returned"
          /\ exit' = "loopCondition"
          /\ hist' = [hist EXCEPT !.queryFailed = FALSE]
          /\ UNCHANGED previousValidCount
  /\ UNCHANGED <<processedTweetIds, collectedContent, scrollAttempts,
                 lastHeight, noNewTweetsCount, validTweetsCount,
                 lastSeenTweetIds, sameContentCount, currentHeight,
                 tweetElements, currentTweetIds, newTweetsFound>>
  /\ UNCHANGED rateVars
  /\ UNCHANGED auxVars

(***************************************************************************)
(* Lines 237-271.  "ok": every script ran.  "scrollFailed": a scroll       *)
(* command (innerHeight, scrollBy, scrollTo) threw, the inner catch logs   *)
(* it and the pass goes on.  "keepActiveFailed": one of the keep-active    *)
(* scripts threw, the outer catch logs it and breaks out of the loop.      *)
(***************************************************************************)
Scroll ==
  /\ pc = "scroll"
  /\ \E outcome \in {"ok", "scrollFailed", "keepActiveFailed"} :
       /\ pc' = IF outcome = "keepActiveFailed" THEN "returned" ELSE "height"
       /\ exit' = IF outcome = "keepActiveFailed" THEN "scrollError" ELSE exit
       /\ hist' = [KeepStall(hist, outcome = "ok") EXCEPT
                     !.scrollFailed = outcome = "scrollFailed"]
  /\ UNCHANGED <<processedTweetIds, collectedContent, scrollAttempts,
                 lastHeight, noNewTweetsCount, validTweetsCount,
                 lastSeenTweetIds, sameContentCount, previousValidCount,
                 currentHeight, tweetElements, currentTweetIds,
                 newTweetsFound>>
  /\ UNCHANGED rateVars
  /\ UNCHANGED auxVars

\* lines 273-275; the script is outside every try of the loop body, so its
\* failure reaches the catch of line 538, which rethrows
ReadHeight ==
  /\ pc = "height"
  /\ \/ \E h \in Heights :
          /\ currentHeight' = h
          /\ pc' = "query"
          /\ exit' = exit
          /\ hist' = [KeepStall(hist, hist.prevPassHeight \in {NoTime, h})
                        EXCEPT !.scrollFailed = FALSE]
     \/ /\ pc' = "thrown"
        /\ exit' = "height"
        /\ hist' = [KeepStall(hist, FALSE) EXCEPT !.scrollFailed = FALSE]
        /\ UNCHANGED currentHeight
  /\ UNCHANGED <<processedTweetIds, collectedContent, scrollAttempts,
                 lastHeight, noNewTweetsCount, validTweetsCount,
                 lastSeenTweetIds, sameContentCount, previousValidCount,
                 tweetElements, currentTweetIds, newTweetsFound>>
  /\ UNCHANGED rateVars
  /\ UNCHANGED auxVars

\* let tweetElements = [] and the findElements of lines 278-287: the handles
\* of a pass are the ones its own query returned
QueriedInMutant(pass) == 1
QueriedIn(pass) == pass

\* lines 277-324: the fresh query keeps n visible handles, or it throws
QueryElements ==
  /\ pc = "query"
  /\ \/ \E n \in 0..MaxVisible :
          /\ tweetElements' = n
          /\ currentTweetIds' = <<>>
          /\ newTweetsFound' = 0
          /\ pc' = "items"
          /\ hist' = [KeepStall(hist, n = 1) EXCEPT
                        !.handlesFrom = QueriedIn(hist.passes)]
          /\ UNCHANGED scrollAttempts
     \/ /\ scrollAttempts' = AttemptsAfterFailedQuery(scrollAttempts)
        /\ pc' = "loop"
        /\ hist' = [hist EXCEPT !.stallSession = FALSE, !.stallId = 0,
                                !.queryFailed = TRUE,
                                !.handlesFrom = 0,
                                !.passAccepted = FALSE,
                                !.prevPassHeight = currentHeight,
                                !.heightStallRun = 0,
                                !.anyStallRun = 0]
        /\ UNCHANGED <<tweetElements, currentTweetIds, newTweetsFound>>
  /\ UNCHANGED <<processedTweetIds, collectedContent, lastHeight,
                 noNewTweetsCount, validTweetsCount, lastSeenTweetIds,
                 sameContentCount, previousValidCount, currentHeight, exit>>
  /\ UNCHANGED rateVars
  /\ UNCHANGED auxVars

(***************************************************************************)
(* Lines 326-487, one iteration of the for loop over tweetElements.  A     *)
(* handle that is stale or not displayed is skipped (lines 331-339).       *)
(* Otherwise el is what the reads of the handle yield and siblings what    *)
(* the thread walk finds behind it.                                        *)
(***************************************************************************)
SkipElement ==
  UNCHANGED <<processedTweetIds, collectedContent, validTweetsCount,
              currentTweetIds, newTweetsFound>>

\* collectedContent.push(item), lines 470-474
PushItemMutant(collected, item) == collected

PushItem(collected, item) == Append(collected, item)

VisitElement(el) ==
  LET initialTweetData == ExtractTweetData(el)
      tweetId == TweetIdOf(initialTweetData.url)
  IN IF initialTweetData.null \/ initialTweetData.url = NoUrl \/ tweetId = 0
     THEN /\ SkipElement
          /\ hist' = [hist EXCEPT !.stallSession = FALSE, !.stallId = 0]
     ELSE /\ currentTweetIds' = SetAdd(currentTweetIds, tweetId)
          /\ newTweetsFound' = IF ~SetHas(lastSeenTweetIds, tweetId)
                               THEN newTweetsFound + 1 ELSE newTweetsFound
          /\ IF IsProcessed(processedTweetIds, tweetId)
             THEN /\ UNCHANGED <<processedTweetIds, collectedContent,
                                 validTweetsCount>>
                  /\ hist' = [hist EXCEPT
                                !.stallSession =
                                   @ /\ hist.stallId \in {0, tweetId},
                                !.stallId =
                                   IF hist.stallSession
                                      /\ hist.stallId \in {0, tweetId}
                                   THEN tweetId ELSE 0]
             ELSE \E siblings \in SiblingsOf(tweetId, MaxSiblings) :
                    LET threadTweets ==
                          ThreadWalk(<<initialTweetData>>, el.url, siblings)
                        combinedText == CombinedText(threadTweets)
                    IN IF ~TrimIsEmpty(combinedText) /\ Accepts(threadTweets)
                       THEN /\ processedTweetIds' =
                                  SetAdd(processedTweetIds, tweetId)
                            /\ collectedContent' =
                                  PushItem(collectedContent,
                                         [tweets |-> threadTweets,
                                          url |-> initialTweetData.url,
                                          timestamp |->
                                            initialTweetData.timestamp])
                            /\ validTweetsCount' = validTweetsCount + 1
                            /\ hist' = [hist EXCEPT
                                          !.stallSession = FALSE, !.stallId = 0,
                                          !.acceptedIds = @ \cup {tweetId},
                                          !.dupAccepted =
                                             @ \/ tweetId \in hist.acceptedIds]
                       ELSE /\ UNCHANGED <<processedTweetIds,
                                           collectedContent, validTweetsCount>>
                            /\ hist' = [hist EXCEPT !.stallSession = FALSE, !.stallId = 0]

ProcessElement ==
  /\ pc = "items"
  /\ tweetElements > 0
  /\ validTweetsCount < THREADS_NEEDED
  /\ tweetElements' = tweetElements - 1
  /\ \/ /\ SkipElement
        /\ hist' = [hist EXCEPT !.stallSession = FALSE, !.stallId = 0]
     \/ \E el \in LoopElements : VisitElement(el)
  /\ UNCHANGED <<pc, scrollAttempts, lastHeight, noNewTweetsCount,
                 lastSeenTweetIds, sameContentCount, previousValidCount,
                 currentHeight, exit>>
  /\ UNCHANGED rateVars
  /\ UNCHANGED auxVars

\* the for loop ends: no handle is left, or line 327 breaks out of it
EndOfElements ==
  /\ pc = "items"
  /\ tweetElements = 0 \/ validTweetsCount >= THREADS_NEEDED
  /\ pc' = "stall"
  /\ UNCHANGED <<processedTweetIds, collectedContent, scrollAttempts,
                 lastHeight, noNewTweetsCount, validTweetsCount,
                 lastSeenTweetIds, sameContentCount, previousValidCount,
                 currentHeight, tweetElements, currentTweetIds,
                 newTweetsFound, exit, hist>>
  /\ UNCHANGED rateVars
  /\ UNCHANGED auxVars

(***************************************************************************)
(* Lines 489-534, the end of a pass: the same-content counter over the ids *)
(* seen, then the no-new-valid counter over the scroll height, then        *)
(* scrollAttempts++.                                                       *)
(***************************************************************************)
StallCheck ==
  /\ pc = "stall"
  /\ LET newFound == newTweetsFound > 0
         merged == SetAddAll(lastSeenTweetIds, currentTweetIds)
         sameAfter == IF newFound THEN 0 ELSE sameContentCount + 1
         \* sameContentCount >= 10, line 511
         sameBreak == ~newFound /\ sameAfter >= SAME_CONTENT_LIMIT
         accepted == validTweetsCount > previousValidCount
         heightSame == currentHeight = lastHeight
         noNewAfter == NoNewAfter(accepted, heightSame, noNewTweetsCount)
         noNewBreak == ~accepted /\ heightSame /\ NoNewBreak(noNewAfter)
     IN /\ lastSeenTweetIds' =
              IF ~newFound THEN lastSeenTweetIds
              ELSE IF Len(merged) > MAX_SEEN_TWEETS
                   THEN SliceLast(merged, SEEN_KEPT)
                   ELSE merged
        /\ sameContentCount' = sameAfter
        /\ IF sameBreak
           THEN /\ pc' = "returned"
                /\ exit' = "sameContent"
                /\ UNCHANGED <<noNewTweetsCount, lastHeight, scrollAttempts>>
           ELSE /\ noNewTweetsCount' = noNewAfter
                /\ lastHeight' = IF ~accepted /\ ~heightSame
                                 THEN currentHeight ELSE lastHeight
                /\ IF noNewBreak
                   THEN /\ pc' = "returned"
                        /\ exit' = "noNewValid"
                        /\ UNCHANGED scrollAttempts
                   ELSE /\ pc' = "loop"
                        /\ exit' = exit
                        /\ scrollAttempts' = scrollAttempts + 1
        /\ hist' = [hist EXCEPT
                      !.passAccepted = accepted,
                      !.prevPassHeight = currentHeight,
                      !.heightStallRun =
                         IF ~accepted /\ heightSame
                         THEN (IF @ < MAX_NO_NEW_TWEETS THEN @ + 1 ELSE @)
                         ELSE 0,
                      !.anyStallRun =
                         IF ~accepted
                            /\ (newTweetsFound = 0
                                  \/ currentHeight = hist.prevPassHeight)
                         THEN (IF @ < MAX_NO_NEW_TWEETS THEN @ + 1 ELSE @)
                         ELSE 0]
  /\ UNCHANGED <<processedTweetIds, collectedContent, validTweetsCount,
                 previousValidCount, currentHeight, tweetElements,
                 currentTweetIds, newTweetsFound>>
  /\ UNCHANGED rateVars
  /\ UNCHANGED auxVars

Next ==
  \/ FindContentBegin
  \/ InitialWait
  \/ LoopTest
  \/ Scroll
  \/ ReadHeight
  \/ QueryElements
  \/ ProcessElement
  \/ EndOfElements
  \/ StallCheck

Spec == Init /\ [][Next]_vars

(***************************************************************************)
(* checkRateLimit, lines 38-48, with the clock.  RateCall is the call up   *)
(* to the await of sleep (or to the return when no wait is due), RateWake  *)
(* the rest of the call once the timer has fired; a timer never fires      *)
(* early and may fire late.                                                *)
(***************************************************************************)
Tick ==
  /\ clock < MaxTime
  /\ clock' = clock + 1
  /\ UNCHANGED <<lastRequestTime, ratePc, now, wakeAt, lastReturn, prevReturn>>
  /\ UNCHANGED loopVars
  /\ UNCHANGED auxVars

RateCall ==
  /\ ratePc = "idle"
  /\ now' = clock
  /\ IF clock - lastRequestTime < RATE_LIMIT_DELAY
     THEN /\ wakeAt' = clock + (RATE_LIMIT_DELAY - (clock - lastRequestTime))
          /\ ratePc' = "sleeping"
          /\ UNCHANGED <<lastRequestTime, lastReturn, prevReturn>>
     ELSE /\ lastRequestTime' = clock
          /\ prevReturn' = lastReturn
          /\ lastReturn' = clock
          /\ UNCHANGED <<wakeAt, ratePc>>
  /\ UNCHANGED clock
  /\ UNCHANGED loopVars
  /\ UNCHANGED auxVars

RateWake ==
  /\ ratePc = "sleeping"
  /\ clock >= wakeAt
  /\ lastRequestTime' = now
  /\ prevReturn' = lastReturn
  /\ lastReturn' = clock
  /\ ratePc' = "idle"
  /\ UNCHANGED <<clock, now, wakeAt>>
  /\ UNCHANGED loopVars
  /\ UNCHANGED auxVars

NextRate ==
  \/ Tick
  \/ RateCall
  \/ RateWake

SpecRate == Init /\ [][NextRate]_vars

(***************************************************************************)
(* The item loop of a pass over a page that also shows tweets with         *)
(* photos, a photo-only tweet and tweets without a usable permalink.       *)
(* While extractTweetData reads an element, one of its reads can hit a     *)
(* stale reference; the catch of that read leaves the field at its         *)
(* default.                                                                *)
(***************************************************************************)
EXTRACT_RETRIES == 2        \* part_003:94, retries = 2

MediaRead(t, l, im, u) ==
  [text |-> t, quoted |-> <<>>, links |-> l, images |-> im,
   videos |-> <<>>, url |-> u, timestamp |-> ""]

FeedTweet(i) ==
  MediaRead(TweetText(i), <<Permalink(1, i, FALSE)>>, <<>>,
            Permalink(1, i, FALSE))

\* one word of text and one photo
PhotoTweet ==
  MediaRead(Words(1), <<Permalink(1, NumIds + 2, FALSE)>>, <<"photo">>,
            Permalink(1, NumIds + 2, FALSE))

\* a photo and no text region
MediaOnlyTweet ==
  MediaRead(<<>>, <<Permalink(1, NumIds + 3, FALSE)>>, <<"photo">>,
            Permalink(1, NumIds + 3, FALSE))

\* qualifying text, two photos and two links
TwoPhotoTweet ==
  MediaRead(Words(MIN_TOTAL_WORDS),
            <<Permalink(1, NumIds + 4, FALSE), Permalink(2, 0, FALSE)>>,
            <<"photo", "photo2">>, Permalink(1, NumIds + 4, FALSE))

\* qualifying text and nothing else but its permalink and time
TextOnlyTweet ==
  [MediaRead(Words(MIN_TOTAL_WORDS), <<>>, <<>>,
             Permalink(1, NumIds + 5, FALSE)) EXCEPT !.timestamp = "t"]

\* no anchor with /status/ in its href
NoLinkTweet == MediaRead(Words(MIN_TOTAL_WORDS), <<>>, <<>>, NoUrl)

\* an anchor whose href ends in /status/
BadIdTweet ==
  MediaRead(Words(1), <<Permalink(1, 0, FALSE)>>, <<>>, Permalink(1, 0, FALSE))

PassTweets ==
  {FeedTweet(1), FeedTweet(2), PhotoTweet, MediaOnlyTweet, NoLinkTweet,
   BadIdTweet, TwoPhotoTweet, TextOnlyTweet}

\* the reads of extractTweetData, in the order of lines 98-173.  "links",
\* "images" and "videos" are the findElements of the field, "linkAttr",
\* "imageAttr" and "videoAttr" the getAttribute of its last element, which
\* the loop reaches after it has pushed the entries before it (lines
\* 131-134, 142-144, 152-154).
ExtractSteps ==
  {"quote", "text", "links", "linkAttr", "images", "imageAttr", "videos",
   "videoAttr", "url", "time"}

AllButLast(list) ==
  IF list = <<>> THEN <<>> ELSE SubSeq(list, 1, Len(list) - 1)

\* what the reads of tweet p yield when the read of step s throws
StaleAt(p, s) ==
  [text |-> IF s = "text" THEN <<>> ELSE p.text,
   quoted |-> IF s = "quote" THEN <<>> ELSE p.quoted,
   links |-> CASE s = "links" -> <<>>
               [] s = "linkAttr" -> AllButLast(p.links)
               [] OTHER -> p.links,
   images |-> CASE s = "images" -> <<>>
                [] s = "imageAttr" -> AllButLast(p.images)
                [] OTHER -> p.images,
   videos |-> CASE s = "videos" -> <<>>
                [] s = "videoAttr" -> AllButLast(p.videos)
                [] OTHER -> p.videos,
   url |-> IF s = "url" THEN NoUrl ELSE p.url,
   timestamp |-> IF s = "time" THEN "" ELSE p.timestamp]

\* every read of extractTweetData sits in a try of its own whose catch
\* swallows the error, and no statement outside them can throw: no error of
\* a read reaches the catch of line 176
Escapes(s) == FALSE

\* attempts of extractTweetData when the read of step s meets a stale
\* reference in every attempt (lines 176-183: retry while retries > 0)
RECURSIVE ExtractAttempts(_, _)
ExtractAttempts(s, retries) ==
  IF s # "none" /\ Escapes(s) /\ retries > 0
  THEN 1 + ExtractAttempts(s, retries - 1)
  ELSE 1

\* handles left to visit once the catch of line 483 has logged the error
AfterItemFailureMutant(n) == 0
AfterItemFailure(n) == n - 1

\* lines 186-324 of the first findContent call of the service when nothing
\* fails: the locals, clearProcessedIds, the wait for the first tweet, the
\* scroll and the height read of the first pass, and its element query, which
\* keeps n visible handles
PassBegin ==
  /\ pc = "idle"
  /\ \E h \in Heights, n \in 0..MaxPassItems :
       /\ currentHeight' = h
       /\ tweetElements' = n
       /\ hist' = [KeepStall([InitHist EXCEPT !.passes = 1,
                                              !.stallSession = TRUE], n = 1)
                     EXCEPT !.handlesFrom = QueriedIn(1)]
  /\ processedTweetIds' = ClearProcessedIds(processedTweetIds)
  /\ pc' = "items"
  /\ UNCHANGED <<collectedContent, scrollAttempts, lastHeight,
                 noNewTweetsCount, validTweetsCount, lastSeenTweetIds,
                 sameContentCount, previousValidCount, currentTweetIds,
                 newTweetsFound, exit>>
  /\ UNCHANGED <<rateVars, auxVars>>

PassElement ==
  /\ pc = "items"
  /\ tweetElements > 0
  /\ validTweetsCount < THREADS_NEEDED
  /\ \/ \* lines 331-339: stale or hidden handle
        /\ tweetElements' = tweetElements - 1
        /\ SkipElement
        /\ hist' = [hist EXCEPT !.stallSession = FALSE, !.stallId = 0]
        /\ obs' = [obs EXCEPT !.el = NoElement, !.tweet = NoElement,
                              !.visited = FALSE,
                              !.stale = "none", !.attempts = 0,
                              !.known = FALSE, !.accepted = FALSE,
                              !.ledgerGrew = FALSE, !.error = FALSE]
     \/ \* lines 341-482
        \E p \in PassTweets, s \in ExtractSteps \cup {"none"} :
          LET el == StaleAt(p, s)
          IN /\ tweetElements' = tweetElements - 1
             /\ VisitElement(el)
             /\ obs' = [obs EXCEPT
                          !.el = el, !.tweet = p, !.visited = TRUE,
                          !.stale = s,
                          !.attempts = ExtractAttempts(s, EXTRACT_RETRIES),
                          !.known = IsProcessed(processedTweetIds, el.url.id),
                          !.accepted = validTweetsCount' > validTweetsCount,
                          !.ledgerGrew =
                             processedTweetIds' # processedTweetIds,
                          !.error = FALSE,
                          !.noUrlSeen = @ \/ el.url.id = 0]
     \/ \* lines 483-486: an error thrown while the item was handled
        /\ tweetElements' = AfterItemFailure(tweetElements)
        /\ SkipElement
        /\ hist' = [hist EXCEPT !.stallSession = FALSE, !.stallId = 0]
        /\ obs' = [obs EXCEPT !.el = NoElement, !.tweet = NoElement,
                              !.visited = FALSE,
                              !.stale = "none", !.attempts = 0,
                              !.known = FALSE, !.accepted = FALSE,
                              !.ledgerGrew = FALSE, !.error = TRUE,
                              !.errorSeen = TRUE]
  /\ UNCHANGED <<pc, scrollAttempts, lastHeight, noNewTweetsCount,
                 lastSeenTweetIds, sameContentCount, previousValidCount,
                 currentHeight, exit>>
  /\ UNCHANGED <<rateVars, walkVars, procVars, fetchVars, ledgerVars, cronVars>>

\* the item loop of the first pass
NextPass ==
  \/ PassBegin
  \/ PassElement
  \/ EndOfElements

SpecPass == Init /\ [][NextPass]_vars

(***************************************************************************)
(* The thread walk of lines 374-443 on a synthetic DOM: a head tweet and   *)
(* the tweets of the sibling containers that follow it.                    *)
(***************************************************************************)
\* a tweet of the head's author that only quotes another tweet
QuoteOnlyTweet ==
  [text |-> <<>>, quoted |-> Words(1),
   links |-> <<Permalink(1, NumIds + 4, FALSE)>>, images |-> <<>>,
   videos |-> <<>>, url |-> Permalink(1, NumIds + 4, FALSE), timestamp |-> ""]


WalkSiblings ==
  {FeedTweet(2), FeedTweet(3), ForeignReply, MediaOnlyTweet, NoLinkTweet,
   QuoteOnlyTweet}

RECURSIVE SeqsUpTo(_, _)
SeqsUpTo(S, n) ==
  IF n = 0 THEN {<<>>}
  ELSE SeqsUpTo(S, n - 1)
         \cup {Append(q, x) : q \in {r \in SeqsUpTo(S, n - 1) : Len(r) = n - 1},
                              x \in S}

WalkThread ==
  /\ ~walk.done
  /\ \E head \in {FeedTweet(1), ForeignReply}, siblings \in SeqsUpTo(WalkSiblings, MaxThread) :
       walk' = [done |-> TRUE, head |-> head, siblings |-> siblings,
                threadTweets |->
                  ThreadWalk(<<ExtractTweetData(head)>>, head.url, siblings)]
  /\ UNCHANGED <<loopVars, rateVars, passVars, procVars, fetchVars, ledgerVars,
                 cronVars>>

NextThread ==
  \/ WalkThread

SpecThread == Init /\ [][NextThread]_vars

(***************************************************************************)
(* The two dedup ledgers and their compaction.  TwitterService compacts at *)
(* the start of every findContent call and adds the id of every item the   *)
(* call accepts, at most THREADS_NEEDED; TwitterListTracker compacts in    *)
(* every check whose number is a multiple of 100 and adds the id of every  *)
(* new tweet a check finds on the page.  Tweet ids not met before are      *)
(* numbered as they come.  Lines 346-388 of part_001 put no limit on what   *)
(* one check adds: it is every new tweet the page shows, PageSize at most. *)
(***************************************************************************)
otherLoopVars == <<collectedContent, scrollAttempts, lastHeight,
                   noNewTweetsCount, lastSeenTweetIds, sameContentCount,
                   previousValidCount, currentHeight, tweetElements,
                   currentTweetIds, newTweetsFound, exit, hist>>

\* part_003:186-196, the start of a findContent call
ServiceClear ==
  /\ ledgerBefore' = processedTweetIds
  /\ processedTweetIds' = ClearProcessedIds(processedTweetIds)
  /\ cleared' = "service"
  /\ validTweetsCount' = 0
  /\ pc' = "items"
  /\ UNCHANGED <<trackerIds, checkCount, pageAdds, nextId>>
  /\ UNCHANGED <<otherLoopVars, rateVars, passVars, walkVars, procVars, fetchVars, cronVars>>

\* part_003:466-475, an acceptance of the running findContent call
ServiceAccept ==
  /\ pc = "items"
  /\ validTweetsCount < THREADS_NEEDED
  /\ nextId <= MaxFresh
  /\ processedTweetIds' = SetAdd(processedTweetIds, nextId)
  /\ validTweetsCount' = validTweetsCount + 1
  /\ nextId' = nextId + 1
  /\ cleared' = IF cleared = "service" THEN "none" ELSE cleared
  /\ UNCHANGED <<pc, trackerIds, checkCount, pageAdds, ledgerBefore>>
  /\ UNCHANGED <<otherLoopVars, rateVars, passVars, walkVars, procVars, fetchVars, cronVars>>

\* part_001:656-667, the start of a check of startTracking
TrackerCheck ==
  /\ checkCount' = (checkCount + 1) % CLEANUP_EVERY
  /\ pageAdds' = 0
  /\ IF (checkCount + 1) % CLEANUP_EVERY = 0
     THEN /\ ledgerBefore' = trackerIds
          /\ trackerIds' = ClearProcessedIds(trackerIds)
          /\ cleared' = "tracker"
     ELSE /\ cleared' = IF cleared = "tracker" THEN "none" ELSE cleared
          /\ UNCHANGED <<trackerIds, ledgerBefore>>
  /\ UNCHANGED nextId
  /\ UNCHANGED <<loopVars, rateVars, passVars, walkVars, procVars, fetchVars, cronVars>>

\* part_001:363-380, getLatestTweets of the baseline or of a check finds a
\* tweet that is not in the ledger
TrackerAdd ==
  /\ pageAdds < PageSize
  /\ nextId <= MaxFresh
  /\ trackerIds' = SetAdd(trackerIds, nextId)
  /\ pageAdds' = pageAdds + 1
  /\ nextId' = nextId + 1
  /\ cleared' = IF cleared = "tracker" THEN "none" ELSE cleared
  /\ UNCHANGED <<checkCount, ledgerBefore>>
  /\ UNCHANGED <<loopVars, rateVars, passVars, walkVars, procVars, fetchVars, cronVars>>

NextLedger ==
  \/ ServiceClear
  \/ ServiceAccept
  \/ TrackerCheck
  \/ TrackerAdd

SpecLedger == Init /\ [][NextLedger]_vars

(***************************************************************************)
(* fetchTweets of the service (part_003:699-777) with init (50-83) and     *)
(* cleanup (779-790).  The service is the object whose fields the methods  *)
(* read and write; findContent stands here with one visible item per call. *)
(* The caller passes a folder with lists, and the options are the          *)
(* defaults: reinitializeOnFailure is true.                                *)
(***************************************************************************)
Service ==
  [driver |-> driver, isInitialized |-> isInitialized,
   processedTweetIds |-> processedTweetIds]

\* cleanup, lines 779-790: driver.quit() with its error caught, then the
\* finally
CleanupMutant(service) ==
  [service EXCEPT !.driver = "null", !.isInitialized = FALSE,
                  !.processedTweetIds = <<>>]
Cleanup(service) ==
  [service EXCEPT !.driver = "null", !.isInitialized = FALSE]

\* init, lines 50-83: connect unless connected, then login; the catch
\* clears isInitialized, cleans up and rethrows
InitService(service, built, loggedIn) ==
  LET connect == service.driver = "null" \/ ~service.isInitialized
      connected == IF connect
                   THEN [service EXCEPT !.driver = "up",
                                        !.isInitialized = TRUE]
                   ELSE service
  IN IF (connect /\ ~built) \/ ~loggedIn
     THEN [service |-> Cleanup([(IF connect /\ ~built THEN service
                                 ELSE connected)
                                  EXCEPT !.isInitialized = FALSE]),
           threw |-> TRUE]
     ELSE [service |-> connected, threw |-> FALSE]

\* if (attempt < maxRetries), line 763
MayRetryMutant(attempt) == attempt <= maxRetries
MayRetry(attempt) == attempt < maxRetries

\* the service and the call are as given after the step
Settle(call, service) ==
  /\ fetch' = call
  /\ driver' = service.driver
  /\ isInitialized' = service.isInitialized
  /\ processedTweetIds' = service.processedTweetIds
  /\ UNCHANGED <<otherLoopVars, validTweetsCount, pc>>
  /\ UNCHANGED <<rateVars, passVars, walkVars, procVars, ledgerVars, cronVars>>

\* the catch of an attempt, lines 759-774, and the attempt++ and test of
\* the for loop (line 711), behind which the function ends with no return
Caught(call, service) ==
  LET failed == [call EXCEPT !.failures = @ + 1]
  IN IF MayRetry(call.attempt)
     THEN Settle([failed EXCEPT
                    !.cleanups = @ \cup {call.attempt},
                    !.attempt = @ + 1,
                    !.i = 0,
                    !.pc = IF call.attempt + 1 <= maxRetries
                           THEN "ensure" ELSE "returned",
                    !.outcome = IF call.attempt + 1 <= maxRetries
                                THEN "none" ELSE "undefined"],
                 [Cleanup(service) EXCEPT !.driver = "null"])
     ELSE Settle([failed EXCEPT !.pc = "thrown", !.outcome = "error"],
                 service)

\* a call of fetchTweets({ folder }), lines 699-711
FetchTweets ==
  /\ fetch.pc \in {"idle", "returned", "thrown"}
  /\ Settle([NoFetch EXCEPT !.pc = "ensure", !.attempt = 1,
                            !.accepted = fetch.accepted,
                            !.acceptedTwice = fetch.acceptedTwice,
                            !.rejectedAfterReinit = fetch.rejectedAfterReinit],
            Service)

\* if (!this.driver || !this.isInitialized) await this.init(), lines 713-715
FetchEnsure ==
  /\ fetch.pc = "ensure"
  /\ IF driver = "null" \/ ~isInitialized
     THEN \E built \in BOOLEAN, loggedIn \in BOOLEAN :
            LET r == InitService(Service, built, loggedIn)
                call == [fetch EXCEPT !.inits = @ \cup {fetch.attempt}]
            IN IF r.threw THEN Caught(call, r.service)
               ELSE Settle([call EXCEPT !.pc = "verify"], r.service)
     ELSE Settle([fetch EXCEPT !.pc = "verify"], Service)

\* lines 717-725: getTitle, and on its failure cleanup and init
FetchVerify ==
  /\ fetch.pc = "verify"
  /\ \/ Settle([fetch EXCEPT !.pc = "navigate", !.i = 0], Service)
     \/ \E built \in BOOLEAN, loggedIn \in BOOLEAN :
          LET r == InitService(Cleanup([Service EXCEPT
                                          !.isInitialized = FALSE]),
                               built, loggedIn)
              call == [fetch EXCEPT !.inits = @ \cup {fetch.attempt}]
          IN IF r.threw THEN Caught(call, r.service)
             ELSE Settle([call EXCEPT !.pc = "navigate", !.i = 0], r.service)

\* checkRateLimit and one round of the navigation loop, lines 726-751
FetchNavigate ==
  /\ fetch.pc = "navigate"
  /\ \E navigated \in BOOLEAN :
       IF navigated THEN Settle([fetch EXCEPT !.pc = "find"], Service)
       ELSE IF fetch.i < 2
            THEN Settle([fetch EXCEPT !.i = @ + 1], Service)
            ELSE Caught(fetch, Service)

\* await this.findContent(), lines 753-754: the call compacts the ledger,
\* meets the item id, accepts it unless the ledger has it, and returns the
\* list or throws
FetchFindContent ==
  /\ fetch.pc = "find"
  /\ \E id \in Ids, threw \in BOOLEAN :
       LET ledger == ClearProcessedIds(processedTweetIds)
           known == IsProcessed(ledger, id)
           service == [Service EXCEPT
                         !.processedTweetIds =
                            IF known THEN ledger ELSE SetAdd(ledger, id)]
           call == [fetch EXCEPT
                      !.accepted = IF known THEN @ ELSE @ \cup {id},
                      !.acceptedTwice = @ \/ (~known /\ id \in fetch.accepted),
                      !.rejectedAfterReinit =
                         @ \/ (known /\ fetch.attempt \in fetch.inits
                                 /\ fetch.attempt > 1)]
       IN IF threw THEN Caught(call, service)
          ELSE Settle([call EXCEPT !.pc = "returned", !.outcome = "list"],
                      service)

NextFetch ==
  \/ FetchTweets
  \/ FetchEnsure
  \/ FetchVerify
  \/ FetchNavigate
  \/ FetchFindContent

SpecFetch == Init /\ [][NextFetch]_vars

(***************************************************************************)
(* The scheduler of the pipeline (part_001:814-1042): initCronJob starts   *)
(* runInitialPipeline and schedules the cron job, whose callback runs      *)
(* processAllFolders; both call runDataPipeline for the folders of         *)
(* config.folders in order.  A run moves from one await to the next; what  *)
(* lies between two awaits is one step.                                    *)
(***************************************************************************)
\* if (isJobRunning), lines 937 and 1003
JobBusyMutant(flag) == FALSE
JobBusy(flag) == flag

\* processAllFolders wraps runDataPipeline in a try of its own (lines
\* 889-903); the loop of runInitialPipeline (lines 1013-1024) does not
CatchesFolderError(r) == r # 0

Active(run) == run.pc \notin {"idle", "done"}

\* runDataPipeline is called for folder f
Started(run, f) ==
  [run EXCEPT !.pc = "fetch", !.folder = f, !.retryCount = 0,
              !.called = @ \cup {f}, !.result = "none",
              !.githubResult = "none", !.posted = "none", !.delays = <<>>]

\* the for loop over config.folders goes on behind the folder of the run
AfterFolder(run) ==
  IF run.folder < NumFolders THEN Started(run, run.folder + 1)
  ELSE [run EXCEPT !.pc = "readme"]

\* the run leaves through its catch and finally, or after its last statement
Ended(run) == [run EXCEPT !.pc = "done"]

\* the call of runDataPipeline of the run has ended with the outcome; last
\* keeps what its last attempt got from its steps
CallEnded(run, outcome) ==
  [run EXCEPT !.last = [outcome |-> outcome, attempts |-> run.retryCount + 1,
                        result |-> run.result,
                        githubResult |-> run.githubResult,
                        posted |-> run.posted]]

\* if (retryCount === MAX_RETRIES), line 864
IsLastAttemptMutant(retryCount) == retryCount = MAX_RETRIES + 1
IsLastAttempt(retryCount) == retryCount = MAX_RETRIES

\* RETRY_DELAY * (retryCount + 1), lines 874-875
RetryDelay(retryCount) == RETRY_DELAY * (retryCount + 1)

\* the catch of runDataPipeline, lines 862-876: sleep and try again, or
\* handleError, which logs, and rethrow in attempt MAX_RETRIES + 1
FailedAttempt(r, run) ==
  IF ~IsLastAttempt(run.retryCount)
  THEN [run EXCEPT !.pc = "sleep",
                   !.delays = Append(@, RetryDelay(run.retryCount))]
  ELSE LET thrown == CallEnded([run EXCEPT !.failed = @ \cup {run.folder}],
                               "thrown")
       IN IF CatchesFolderError(r) THEN AfterFolder(thrown) ELSE Ended(thrown)

\* if (!githubResult?.success) throw ..., lines 845-847, else postTweet
AfterUploadMutant(r, run, githubResult) ==
  [run EXCEPT !.pc = "post", !.githubResult = githubResult]
AfterUpload(r, run, githubResult) ==
  IF githubResult = "success"
  THEN [run EXCEPT !.pc = "post", !.githubResult = githubResult]
  ELSE FailedAttempt(r, [run EXCEPT !.githubResult = githubResult])

\* what runDataPipeline does with the result of fetchTweets, lines 830-840:
\* a null result throws, an empty list returns null, a list with tweets
\* goes on to createMarkdownFileFromTweets
AfterFetchMutant(r, run, result) ==
  CASE result \in {"some", "empty"} -> [run EXCEPT !.pc = "upload", !.result = result]
    [] OTHER -> FailedAttempt(r, [run EXCEPT !.result = result])
AfterFetch(r, run, result) ==
  CASE result = "some" -> [run EXCEPT !.pc = "upload", !.result = result]
    [] result = "empty" ->
         AfterFolder(CallEnded([run EXCEPT !.result = result], "null"))
    [] OTHER -> FailedAttempt(r, [run EXCEPT !.result = result])

\* run r goes on as next; when it ends, its finally clears isJobRunning and
\* the callback of the cron job calls scheduleRandomJob (line 955)
\* finally { isJobRunning = false; }, lines 946-948 and 1034-1036
FlagAfterRunMutant(flag) == flag

FlagAfterRun(flag) == FALSE

Proceed(r, next) ==
  /\ runs' = [runs EXCEPT ![r] = next]
  /\ IF next.pc = "done"
     THEN /\ isJobRunning' = FlagAfterRun(isJobRunning)
          /\ scheduledJob' = IF r = 0 THEN scheduledJob ELSE "job"
     ELSE UNCHANGED <<isJobRunning, scheduledJob>>
  /\ UNCHANGED lastTick
  /\ UNCHANGED <<loopVars, rateVars, passVars, walkVars, procVars, fetchVars, ledgerVars>>

\* initCronJob, lines 967-982, with the synchronous part of
\* runInitialPipeline (lines 1003-1011) and scheduleRandomJob
InitCronJob ==
  /\ scheduledJob = "null"
  /\ ~Active(runs[0])
  /\ IF JobBusy(isJobRunning)
     THEN UNCHANGED <<isJobRunning, runs>>
     ELSE /\ isJobRunning' = TRUE
          /\ runs' = [runs EXCEPT ![0] = [IdleRun EXCEPT !.pc = "init"]]
  /\ scheduledJob' = "job"
  /\ UNCHANGED lastTick
  /\ UNCHANGED <<loopVars, rateVars, passVars, walkVars, procVars, fetchVars, ledgerVars>>

\* the cron job fires its callback, lines 935-948
CronTick ==
  /\ scheduledJob = "job"
  /\ \E r \in Runs \ {0} :
       /\ ~Active(runs[r])
       /\ IF JobBusy(isJobRunning)
          THEN /\ lastTick' = "skipped"
               /\ UNCHANGED <<isJobRunning, runs>>
          ELSE /\ lastTick' = "started"
               /\ isJobRunning' = TRUE
               /\ runs' = [runs EXCEPT ![r] = [IdleRun EXCEPT !.pc = "init"]]
  /\ UNCHANGED scheduledJob
  /\ UNCHANGED <<loopVars, rateVars, passVars, walkVars, procVars, fetchVars, ledgerVars>>

\* await TwitterService.init(), lines 886 and 1011
RunInit(r) ==
  /\ runs[r].pc = "init"
  /\ \E ok \in BOOLEAN :
       Proceed(r, IF ok THEN Started(runs[r], 1) ELSE Ended(runs[r]))

\* await TwitterService.fetchTweets({ folder }), lines 828-839
RunFetch(r) ==
  /\ runs[r].pc = "fetch"
  /\ \E result \in {"threw", "null", "empty", "some"} :
       Proceed(r, AfterFetch(r, runs[r], result))

\* await GithubService.createMarkdownFileFromTweets(...), lines 840-847
RunUpload(r) ==
  /\ runs[r].pc = "upload"
  /\ \E githubResult \in {"success", "failure", "threw"} :
       Proceed(r, AfterUpload(r, runs[r], githubResult))

\* await TwitterService.postTweet(tweetText), lines 849-859
RunPost(r) ==
  /\ runs[r].pc = "post"
  /\ \E posted \in {"ok", "threw"} :
       LET run == [runs[r] EXCEPT !.posted = posted]
       IN Proceed(r, IF posted = "ok"
                     THEN AfterFolder(CallEnded(run, "returned"))
                     ELSE FailedAttempt(r, run))

\* await sleep(RETRY_DELAY * (retryCount + 1)), then retryCount++ and the
\* test of the for loop (line 826); behind the loop the function ends with
\* no return statement
RunRetry(r) ==
  /\ runs[r].pc = "sleep"
  /\ Proceed(r, IF runs[r].retryCount + 1 <= MAX_RETRIES
                THEN [runs[r] EXCEPT !.pc = "fetch", !.retryCount = @ + 1,
                                     !.result = "none",
                                     !.githubResult = "none",
                                     !.posted = "none"]
                ELSE AfterFolder(CallEnded(runs[r], "undefined")))

\* await GithubService.updateReadmeWithNewFile(...), lines 906-912 and
\* 1025-1031; the run ends whether it throws or not
RunReadme(r) ==
  /\ runs[r].pc = "readme"
  /\ Proceed(r, Ended(runs[r]))

NextCron ==
  \/ InitCronJob
  \/ CronTick
  \/ \E r \in Runs : RunInit(r)
  \/ \E r \in Runs : RunFetch(r)
  \/ \E r \in Runs : RunUpload(r)
  \/ \E r \in Runs : RunPost(r)
  \/ \E r \in Runs : RunRetry(r)
  \/ \E r \in Runs : RunReadme(r)

SpecCron == Init /\ [][NextCron]_vars

(***************************************************************************)
(* stopCronJob, part_001:984-1000, as handleShutdown of src/index.js:4-20  *)
(* calls it on a signal: the job is stopped and scheduledJob set to null.  *)
(* A callback that is running goes on.  TwitterService.cleanup() can only  *)
(* make a running step fail, which every step of a run may do already.     *)
(* initCronJob is not called again after the stop.                         *)
(***************************************************************************)
StopCronJob ==
  /\ scheduledJob' = "null"
  /\ stopCalled' = TRUE
  /\ UNCHANGED <<trk, shut, gh>>
  /\ UNCHANGED <<isJobRunning, runs, lastTick>>
  /\ UNCHANGED <<loopVars, rateVars, passVars, walkVars, fetchVars, ledgerVars>>

\* src/index.js:22-26, startApplication calls initCronJob once, before the
\* signal handlers are registered
NextStop ==
  \/ ~stopCalled /\ InitCronJob
  \/ StopCronJob
  \/ CronTick
  \/ \E r \in Runs : RunInit(r)
  \/ \E r \in Runs : RunFetch(r)
  \/ \E r \in Runs : RunUpload(r)
  \/ \E r \in Runs : RunPost(r)
  \/ \E r \in Runs : RunRetry(r)
  \/ \E r \in Runs : RunReadme(r)

SpecStop == Init /\ [][NextStop]_vars

(***************************************************************************)
(* TwitterListTracker.startTracking, part_001:621-739.  trackerIds is      *)
(* this.processedTweetIds of the tracker and checkCount the local of the   *)
(* loop, kept modulo the cleanup period.  trk.stamped says that            *)
(* lastSuccessfulCheck was assigned in the current check; the two          *)
(* comparisons of shouldRefreshBrowser with Date.now() are inputs.         *)
(* trk.sent lists the ids sendToDiscord was called with, in order,         *)
(* trk.failedSends those whose call returned false, trk.baseline the ids   *)
(* of the tweets the baseline fetch returned.                              *)
(***************************************************************************)
\* shouldRefreshBrowser, lines 104-113
ShouldRefreshBrowser(aged, failures, stale) ==
  aged \/ failures >= REFRESH_FAILURES \/ stale

RECURSIVE InOrder(_)
InOrder(S) ==
  IF S = {} THEN <<>>
  ELSE LET m == CHOOSE x \in S : \A y \in S : x <= y
       IN <<m>> \o InOrder(S \ {m})

\* the for loop of getLatestTweets, lines 346-388, over the tweets of the
\* page that could be read and have content: those not in the ledger
NewTweetsMutant(ledger, readable) == InOrder(readable)

NewTweets(ledger, readable) ==
  InOrder({i \in readable : ~SetHas(ledger, i)})

\* a check ends through lines 675-678 or 710-711
CheckSucceeded(t) ==
  [t EXCEPT !.pc = "sleep", !.consecutiveFailures = 0, !.stamped = TRUE,
            !.exhaustedRun =
               IF ~t.exhausted THEN 0
               ELSE IF t.exhaustedRun < REFRESH_FAILURES
               THEN t.exhaustedRun + 1 ELSE t.exhaustedRun]

\* await this.init() of line 644; a throw is fatal (lines 735-738)
TrackInit ==
  /\ trk.pc = "start"
  /\ \E ok \in BOOLEAN :
       trk' = [trk EXCEPT !.pc = IF ok THEN "baseline" ELSE "fatal"]
  /\ UNCHANGED <<stopCalled, shut, gh>>
  /\ UNCHANGED <<loopVars, rateVars, passVars, walkVars, fetchVars, ledgerVars, cronVars>>

\* one attempt of getLatestTweets, lines 287-401, for the baseline (line
\* 648) or for a check (line 673): it throws or times out and is retried
\* or gives up with [], or it reads the page.  visible are the tweets of
\* the page, readable those whose data could be extracted and has content.
GetLatestTweets ==
  /\ trk.pc \in {"baseline", "fetch"}
  /\ \/ /\ trk.retryCount < maxRetriesLatest
        /\ trk' = [trk EXCEPT !.retryCount = @ + 1]
        /\ UNCHANGED trackerIds
     \/ /\ trk.retryCount >= maxRetriesLatest
        /\ trk' = IF trk.pc = "baseline"
                  THEN [trk EXCEPT !.pc = "sleep", !.retryCount = 0]
                  ELSE CheckSucceeded([trk EXCEPT !.retryCount = 0,
                                                  !.exhausted = TRUE])
        /\ UNCHANGED trackerIds
     \/ \E visible \in SUBSET Ids : \E readable \in SUBSET visible :
          LET newTweets == NewTweets(trackerIds, readable)
              seen == [trk EXCEPT
                         !.retryCount = 0,
                         !.reseen = @ \/ \E i \in readable :
                                          i \in Elems(trk.sent) \cup trk.baseline]
          IN /\ trackerIds' = SetAddAll(trackerIds, newTweets)
             /\ trk' = IF trk.pc = "baseline"
                       THEN [seen EXCEPT !.pc = "sleep",
                                         !.baseline = Elems(newTweets)]
                       ELSE IF newTweets = <<>>
                       THEN CheckSucceeded(seen)
                       ELSE [seen EXCEPT !.pc = "send", !.tweets = newTweets]
  /\ UNCHANGED <<checkCount, pageAdds, nextId, cleared, ledgerBefore>>
  /\ UNCHANGED <<stopCalled, shut, gh>>
  /\ UNCHANGED <<loopVars, rateVars, passVars, walkVars, fetchVars, cronVars>>

\* the head of a check, lines 656-671: checkCount++, the periodic cleanup,
\* shouldRefreshBrowser and refreshBrowser, whose throw ends the check in
\* the catch of lines 713-728; recovered says that the refreshBrowser of
\* line 722 returned
TrackCheck ==
  /\ trk.pc = "sleep"
  /\ trk.consecutiveFailures < MaxFailures
  /\ checkCount' = (checkCount + 1) % CLEANUP_EVERY
  /\ trackerIds' = IF (checkCount + 1) % CLEANUP_EVERY = 0
                   THEN ClearProcessedIds(trackerIds) ELSE trackerIds
  /\ \E aged \in BOOLEAN, stale \in BOOLEAN, refreshed \in BOOLEAN,
        recovered \in BOOLEAN :
       LET t == [trk EXCEPT !.stamped = FALSE, !.exhausted = FALSE]
       IN trk' = IF ~ShouldRefreshBrowser(aged, trk.consecutiveFailures, stale)
                 THEN [t EXCEPT !.pc = "fetch"]
                 ELSE IF refreshed
                 THEN [t EXCEPT !.pc = "fetch", !.consecutiveFailures = 0]
                 ELSE [t EXCEPT
                         !.pc = "sleep",
                         !.consecutiveFailures =
                            IF t.consecutiveFailures + 1 >= RECOVERY_FAILURES
                               /\ recovered
                            THEN 0 ELSE t.consecutiveFailures + 1,
                         !.exhaustedRun = 0]
  /\ UNCHANGED <<pageAdds, nextId, cleared, ledgerBefore>>
  /\ UNCHANGED <<stopCalled, shut, gh>>
  /\ UNCHANGED <<loopVars, rateVars, passVars, walkVars, fetchVars, cronVars>>

\* one turn of the for loop of lines 682-708: shouldSendTweet, and
\* sendToDiscord (lines 550-604), which returns true or false and never
\* throws; behind the last tweet the check ends at lines 710-711
SendTweet ==
  /\ trk.pc = "send"
  /\ Len(trk.sent) < MaxSent
  /\ \E send \in BOOLEAN, delivered \in BOOLEAN :
       LET tweet == Head(trk.tweets)
           t == [trk EXCEPT
                   !.tweets = Tail(@),
                   !.sent = IF send THEN Append(@, tweet) ELSE @,
                   !.failedSends = IF send /\ ~delivered
                                   THEN @ \cup {tweet} ELSE @]
       IN trk' = IF t.tweets = <<>> THEN CheckSucceeded(t) ELSE t
  /\ UNCHANGED <<stopCalled, shut, gh>>
  /\ UNCHANGED <<loopVars, rateVars, passVars, walkVars, fetchVars, ledgerVars, cronVars>>

NextTrack ==
  \/ TrackInit
  \/ GetLatestTweets
  \/ TrackCheck
  \/ SendTweet

SpecTrack == Init /\ [][NextTrack]_vars

(***************************************************************************)
(* GithubService.uploadMarkdownFile and getNextFileNumber, github.js        *)
(* 91-162.  The folder starts with any set of files the service has        *)
(* named, resources-NNN.md with the number padded to PAD_WIDTH digits.     *)
(***************************************************************************)
\* String(n)
RECURSIVE Digits(_)
Digits(n) == IF n < 10 THEN <<n>> ELSE Append(Digits(n \div 10), n % 10)

\* `resources-${String(nextNumber).padStart(3, "0")}.md`, line 105
FileName(n) ==
  LET s == Digits(n)
      w == PAD_WIDTH
  IN IF Len(s) >= w THEN s
     ELSE [k \in 1..w |-> IF k <= w - Len(s) THEN 0 ELSE s[k - (w - Len(s))]]

\* parseInt of a digit string
RECURSIVE ParseInt(_)
ParseInt(s) ==
  IF s = <<>> THEN 0
  ELSE 10 * ParseInt(SubSeq(s, 1, Len(s) - 1)) + s[Len(s)]

\* getNextFileNumber, lines 143-162, on the listing of the folder: the
\* names that match /^resources-\d{3}\.md$/ (line 152), each mapped to
\* parseInt(file.name.match(/\d{3}/)[0]) (line 153)
GetNextFileNumber(names) ==
  LET matching == {f \in names : Len(f) = PAD_WIDTH}
      numbers == {ParseInt(SubSeq(name, 1, PAD_WIDTH)) : name \in matching}
  IN IF numbers # {}
     THEN (CHOOSE m \in numbers : \A n \in numbers : n <= m) + 1
     ELSE 1

\* uploadMarkdownFile, lines 91-141: the listing throws, or the number is
\* taken and a later step throws (rate limit, access, the create call), or
\* the file is written
UploadMarkdownFile ==
  /\ gh.uploads < MaxUploads
  /\ \/ gh' = [gh EXCEPT !.uploads = @ + 1, !.result = "none"]
     \/ \E written \in BOOLEAN :
          LET nextNumber == GetNextFileNumber(gh.folder)
              fileName == FileName(nextNumber)
          IN gh' = [folder |-> IF written THEN gh.folder \cup {fileName}
                               ELSE gh.folder,
                    before |-> gh.folder,
                    nextNumber |-> nextNumber,
                    result |-> IF written THEN "success" ELSE "error",
                    targetedExisting |-> fileName \in gh.folder,
                    uploads |-> gh.uploads + 1]
  /\ UNCHANGED <<stopCalled, trk, shut>>
  /\ UNCHANGED <<loopVars, rateVars, passVars, walkVars, fetchVars, ledgerVars, cronVars>>

\* the folder holds files with low numbers and with numbers around the
\* first one that has more than PAD_WIDTH digits
InitUpload ==
  /\ StartState
  /\ LET firstWide == 10 ^ PAD_WIDTH
         fileNumbers == (1..LowNumbers)
                          \cup ((firstWide - NearWide)..(firstWide + NearWide))
     IN gh \in {FolderWith({FileName(n) : n \in S}) :
                  S \in SUBSET fileNumbers}

SpecUpload == InitUpload /\ [][UploadMarkdownFile]_vars

(***************************************************************************)
(* The tracker process with its global handlers, part_001:758-812.  Of     *)
(* startTracking only the start is followed: a throw of init is the only   *)
(* way to its catch of lines 808-812, and the tracking loop reads and      *)
(* writes neither isShuttingDown nor a timer.  shut.signals counts the     *)
(* signals, uncaught exceptions and unhandled rejections that arrived,     *)
(* shut.sequences the times the body of gracefulShutdown behind its guard  *)
(* was entered, shut.fallbacks the timers of lines 795 and 803.            *)
(***************************************************************************)
\* if (isShuttingDown) return;, line 762
AlreadyShuttingDownMutant(flag) == FALSE

AlreadyShuttingDown(flag) == flag

Exited(by) ==
  [shut EXCEPT !.pc = "exited", !.forceExitTimeout = FALSE, !.exitBy = by]

\* a handler of lines 787-804 runs: gracefulShutdown up to its first await
\* (lines 761-774), and for the two error events the fallback timer
Arrives(kind) ==
  /\ shut.pc # "exited"
  /\ shut.signals < MaxSignals
  /\ LET counted ==
           [shut EXCEPT
              !.signals = @ + 1,
              !.fallbacks =
                 IF kind \in {"uncaughtException", "unhandledRejection"}
                 THEN @ + 1 ELSE @]
     IN shut' = IF AlreadyShuttingDown(shut.isShuttingDown)
                THEN counted
                ELSE [counted EXCEPT !.isShuttingDown = TRUE,
                                     !.forceExitTimeout = TRUE,
                                     !.sequences = @ + 1,
                                     !.pc = "cleanup"]
  /\ UNCHANGED <<stopCalled, trk, gh>>
  /\ UNCHANGED <<loopVars, rateVars, passVars, walkVars, fetchVars, ledgerVars, cronVars>>

\* await tracker.cleanup() has returned or thrown: clearTimeout and
\* process.exit, lines 775-784
CleanupDone ==
  /\ shut.pc = "cleanup"
  /\ \E threw \in BOOLEAN :
       shut' = Exited(IF threw THEN "error" ELSE "cleanup")
  /\ UNCHANGED <<stopCalled, trk, gh>>
  /\ UNCHANGED <<loopVars, rateVars, passVars, walkVars, fetchVars, ledgerVars, cronVars>>

\* the callback of forceExitTimeout, lines 768-771
ForceExit ==
  /\ shut.pc # "exited"
  /\ shut.forceExitTimeout
  /\ shut' = Exited("force")
  /\ UNCHANGED <<stopCalled, trk, gh>>
  /\ UNCHANGED <<loopVars, rateVars, passVars, walkVars, fetchVars, ledgerVars, cronVars>>

\* the callback of a fallback timer, lines 795 and 803
FallbackExit ==
  /\ shut.pc # "exited"
  /\ shut.fallbacks > 0
  /\ shut' = Exited("fallback")
  /\ UNCHANGED <<stopCalled, trk, gh>>
  /\ UNCHANGED <<loopVars, rateVars, passVars, walkVars, fetchVars, ledgerVars, cronVars>>

\* startTracking has thrown: the catch of lines 808-812
FatalExit ==
  /\ shut.pc # "exited"
  /\ trk.pc = "fatal"
  /\ shut' = Exited("fatal")
  /\ UNCHANGED <<stopCalled, trk, gh>>
  /\ UNCHANGED <<loopVars, rateVars, passVars, walkVars, fetchVars, ledgerVars, cronVars>>

\* tracker.startTracking() of line 807 begins while the process lives
NextShutdown ==
  \/ shut.pc # "exited" /\ TrackInit
  \/ \E kind \in {"SIGINT", "SIGTERM", "uncaughtException",
                  "unhandledRejection"} : Arrives(kind)
  \/ CleanupDone
  \/ ForceExit
  \/ FallbackExit
  \/ FatalExit

\* an armed timer fires unless the process has exited before
SpecShutdownLive ==
  Init /\ [][NextShutdown]_vars /\ WF_vars(ForceExit)

(***************************************************************************)
(* The scheduler of src/src/services/cron.js.  It has no isJobRunning:     *)
(* initCronJob starts runInitialPipeline without awaiting it and schedules *)
(* the cron job, and every tick of the job runs its callback.  Neither the *)
(* callback nor runInitialPipeline catches the error of one folder.  Run 0 *)
(* is runInitialPipeline, the others are callbacks of the cron job.        *)
(***************************************************************************)
JsRuns == 0..MaxJsTicks

\* the catch of runDataPipeline, cron.js:46-60
JsFailedAttempt(run) ==
  IF run.retryCount < MAX_RETRIES THEN [run EXCEPT !.pc = "sleep"]
  ELSE Ended([run EXCEPT !.failed = @ \cup {run.folder}])

\* run r goes on as next; a callback that ends calls scheduleRandomJob
\* (cron.js:115)
JsProceed(r, next) ==
  /\ runs' = [runs EXCEPT ![r] = next]
  /\ scheduledJob' = IF next.pc = "done" /\ r # 0 THEN "job" ELSE scheduledJob
  /\ UNCHANGED <<isJobRunning, lastTick>>
  /\ UNCHANGED <<loopVars, rateVars, passVars, walkVars, procVars, fetchVars, ledgerVars>>

\* initCronJob, cron.js:127-142: runInitialPipeline() up to its first await
\* (lines 154-157), then scheduleRandomJob()
JsInitCronJob ==
  /\ scheduledJob = "null"
  /\ runs[0].pc = "idle"
  /\ runs' = [runs EXCEPT ![0] = [IdleRun EXCEPT !.pc = "init"]]
  /\ scheduledJob' = "job"
  /\ UNCHANGED <<isJobRunning, lastTick>>
  /\ UNCHANGED <<loopVars, rateVars, passVars, walkVars, procVars, fetchVars, ledgerVars>>

\* the cron job fires its callback, cron.js:88-93
JsCronTick ==
  /\ scheduledJob = "job"
  /\ \E r \in JsRuns \ {0} :
       /\ runs[r].pc = "idle"
       /\ runs' = [runs EXCEPT ![r] = [IdleRun EXCEPT !.pc = "init"]]
  /\ lastTick' = "started"
  /\ UNCHANGED <<scheduledJob, isJobRunning>>
  /\ UNCHANGED <<loopVars, rateVars, passVars, walkVars, procVars, fetchVars, ledgerVars>>

\* await TwitterService.init(), cron.js:93 and 157
JsRunInit(r) ==
  /\ runs[r].pc = "init"
  /\ \E ok \in BOOLEAN :
       JsProceed(r, IF ok THEN Started(runs[r], 1) ELSE Ended(runs[r]))

\* await TwitterService.fetchTweets({ folder }), cron.js:15-23 and 45
JsRunFetch(r) ==
  /\ runs[r].pc = "fetch"
  /\ \E result \in {"threw", "null", "notArray", "empty", "some"} :
       JsProceed(r, CASE result = "some" -> [runs[r] EXCEPT !.pc = "upload"]
                      [] result = "empty" -> AfterFolder(runs[r])
                      [] OTHER -> JsFailedAttempt(runs[r]))

\* await GithubService.createMarkdownFileFromTweets(...), cron.js:24-31
JsRunUpload(r) ==
  /\ runs[r].pc = "upload"
  /\ \E success \in BOOLEAN :
       JsProceed(r, IF success THEN [runs[r] EXCEPT !.pc = "post"]
                    ELSE JsFailedAttempt(runs[r]))

\* await TwitterService.postTweet(tweetText), cron.js:33-43
JsRunPost(r) ==
  /\ runs[r].pc = "post"
  /\ \E ok \in BOOLEAN :
       JsProceed(r, IF ok THEN AfterFolder(runs[r])
                    ELSE JsFailedAttempt(runs[r]))

\* await sleep(RETRY_DELAY * (retryCount + 1)), cron.js:58-59
JsRunRetry(r) ==
  /\ runs[r].pc = "sleep"
  /\ JsProceed(r, [runs[r] EXCEPT !.pc = "fetch", !.retryCount = @ + 1])

\* await GithubService.updateReadmeWithNewFile(...), cron.js:107-113 and
\* 171-177
JsRunReadme(r) ==
  /\ runs[r].pc = "readme"
  /\ JsProceed(r, Ended(runs[r]))

NextCronJs ==
  \/ JsInitCronJob
  \/ JsCronTick
  \/ \E r \in JsRuns : JsRunInit(r)
  \/ \E r \in JsRuns : JsRunFetch(r)
  \/ \E r \in JsRuns : JsRunUpload(r)
  \/ \E r \in JsRuns : JsRunPost(r)
  \/ \E r \in JsRuns : JsRunRetry(r)
  \/ \E r \in JsRuns : JsRunReadme(r)

SpecCronJs == Init /\ [][NextCronJs]_vars

(***************************************************************************)
(* Properties of the dedup ledger and of the discovery loop.               *)
(***************************************************************************)
HeadId(item) == TweetIdOf(item.url)

\* C1: while clearProcessedIds discards nothing, a tweet id is accepted (its
\* item appended to collectedContent) at most once, over all passes and all
\* findContent invocations of the service instance.
C1_AcceptedAtMostOnce ==
  /\ ~hist.dupAccepted
  /\ \A i, j \in 1..Len(collectedContent) :
        i # j => HeadId(collectedContent[i]) # HeadId(collectedContent[j])

\* an id accepted by an earlier invocation has been presented again in this
\* pass and has not been collected again
C1_Witness ==
  /\ pc = "stall"
  /\ \E id \in hist.acceptedIds :
        /\ SetHas(currentTweetIds, id)
        /\ \A k \in 1..Len(collectedContent) : HeadId(collectedContent[k]) # id

\* C3 as stated: with a scroll height that never changes and a query that
\* always returns the same already-processed tweet, findContent returns within
\* MAX_NO_NEW_TWEETS passes, with what it had collected (nothing) and with
\* scrollAttempts within MAX_SCROLL_ATTEMPTS.
C3_StallEndsWithinMaxNoNew ==
  hist.stallSession =>
    /\ hist.passes <= MAX_NO_NEW_TWEETS
    /\ collectedContent = <<>>
    /\ scrollAttempts <= MAX_SCROLL_ATTEMPTS
    /\ pc # "thrown"

\* C3 as amended: the same, within MAX_NO_NEW_TWEETS + 1 passes (the first
\* pass records the height when it is not 0, the initial lastHeight).
C3_StallEndsWithinMaxNoNewPlusOne ==
  hist.stallSession =>
    /\ hist.passes <= MAX_NO_NEW_TWEETS + 1
    /\ collectedContent = <<>>
    /\ scrollAttempts <= MAX_SCROLL_ATTEMPTS
    /\ pc # "thrown"

C3_Witness ==
  /\ hist.stallSession
  /\ hist.stallId # 0
  /\ pc = "returned"
  /\ exit = "noNewValid"
  /\ hist.passes = MAX_NO_NEW_TWEETS + 1

\* C4: an invocation makes at most MAX_SCROLL_ATTEMPTS passes, and every pass
\* that comes back to the loop condition, the one cut short by a failed
\* element query included, has advanced scrollAttempts.
C4_PassesBounded ==
  /\ hist.passes <= MAX_SCROLL_ATTEMPTS
  /\ pc = "loop" => hist.passes = scrollAttempts
  /\ pc \in {"scroll", "height", "query", "items", "stall"} =>
        hist.passes = scrollAttempts + 1
  /\ pc \in {"returned", "thrown"} => scrollAttempts <= hist.passes

\* the last pass allowed ended in a failed element query
C4_Witness ==
  /\ pc = "loop"
  /\ hist.queryFailed
  /\ scrollAttempts = MAX_SCROLL_ATTEMPTS

\* C5: when findContent returns, the result holds at least THREADS_NEEDED
\* items, or scrollAttempts reached MAX_SCROLL_ATTEMPTS, or a stall counter
\* reached its threshold.
C5_ReturnMeetsTerminationCondition ==
  pc = "returned" =>
    \/ Len(collectedContent) >= THREADS_NEEDED
    \/ scrollAttempts >= MAX_SCROLL_ATTEMPTS
    \/ noNewTweetsCount >= MAX_NO_NEW_TWEETS
    \/ sameContentCount >= SAME_CONTENT_LIMIT

\* C6: findContent throws only before the first scroll pass.
C6_NoThrowOnceScrolling ==
  pc = "thrown" => hist.passes = 0

\* C7: a timeout of the wait for the first tweet does not make findContent
\* fail.
C7_InitialWaitTimeoutProceeds ==
  hist.waitTimedOut => pc # "thrown"

\* C8: a pass whose scroll command failed ends the invocation with an error.
C8_ScrollFailurePropagates ==
  hist.scrollFailed => pc = "thrown"

\* C9 as stated: after a pass that accepted an item, no stall counter is
\* non-zero.
C9_AcceptanceClearsEveryCounter ==
  hist.passAccepted => noNewTweetsCount = 0 /\ sameContentCount = 0

\* C9 as amended: after a pass that accepted an item, noNewTweetsCount is
\* zero unless the same-content check of that pass ended the loop;
\* sameContentCount is not reset by an acceptance.
C9_AcceptanceClearsNoNewCount ==
  hist.passAccepted /\ exit # "sameContent" => noNewTweetsCount = 0

\* a pass accepted an item that an earlier pass had seen: the height stall
\* signal holds, the no-new counter is zero, the same-content counter is not
C9_Witness ==
  /\ pc = "loop"
  /\ hist.passAccepted
  /\ currentHeight = lastHeight
  /\ sameContentCount > 0

C2_ReturnsSpacedByDelay ==
  /\ prevReturn # NoTime => lastReturn - prevReturn >= RATE_LIMIT_DELAY
  /\ (ratePc = "idle" /\ lastReturn # NoTime) => lastRequestTime = lastReturn

(***************************************************************************)
(* Properties of the item loop of a pass.                                  *)
(***************************************************************************)
IsPrefix(a, b) == Len(a) <= Len(b) /\ SubSeq(b, 1, Len(a)) = a

\* a step of the item loop: one handle of the pass has been dealt with
ItemStep == pc = "items" /\ tweetElements' # tweetElements

\* C11: every collected item has a combined text of at least MIN_TOTAL_WORDS
\* words or a tweet with a link, an image or a video; and a tweet read with
\* one word of text and one image, whose id is resolvable and not yet in the
\* ledger, is collected.
C11_AcceptanceThreshold ==
  /\ \A k \in 1..Len(collectedContent) :
        LET tw == collectedContent[k].tweets
        IN \/ WordCount(CombinedText(tw)) >= MIN_TOTAL_WORDS
           \/ \E j \in 1..Len(tw) :
                 tw[j].links # <<>> \/ tw[j].images # <<>>
                   \/ tw[j].videos # <<>>
  /\ (/\ obs.visited
      /\ WordCount(obs.el.text) = 1
      /\ Len(obs.el.images) = 1
      /\ obs.el.url.id # 0
      /\ ~obs.known) => obs.accepted

\* a tweet of one word and one photo whose links could not be read has been
\* collected as an item of its own
C11_Witness ==
  /\ obs.visited
  /\ obs.accepted
  /\ WordCount(obs.el.text) = 1
  /\ Len(obs.el.images) = 1
  /\ obs.el.links = <<>>
  /\ Len(collectedContent[Len(collectedContent)].tweets) = 1

\* C12: a tweet without text region that has a resolvable permalink and an
\* image, and is not yet in the ledger, is extracted (not null) and collected.
C12_MediaOnlyAccepted ==
  (/\ obs.visited
   /\ obs.el.text = <<>>
   /\ obs.el.quoted = <<>>
   /\ obs.el.images # <<>>
   /\ obs.el.url.id # 0
   /\ ~obs.known) => ~ExtractTweetData(obs.el).null /\ obs.accepted

C17_StaleReadRetried ==
  (obs.visited /\ obs.stale # "none") => obs.attempts > 1

\* C18: every step of the item loop, the one in which the handling of the item
\* failed included, deals with exactly one handle, stays in the loop and
\* keeps the items collected so far; the loop is left only when no handle is
\* left or THREADS_NEEDED items are collected.
C18_ItemFailureKeepsPass ==
  [][/\ ItemStep =>
          /\ pc' = "items"
          /\ tweetElements' = tweetElements - 1
          /\ IsPrefix(collectedContent, collectedContent')
          /\ obs'.error =>
                /\ collectedContent' = collectedContent
                /\ processedTweetIds' = processedTweetIds
     /\ (pc = "items" /\ pc' # "items") =>
          tweetElements = 0 \/ validTweetsCount >= THREADS_NEEDED]_vars

\* the handling of an item failed and a later item of the pass was collected
C18_Witness ==
  /\ obs.errorSeen
  /\ ~obs.error
  /\ obs.accepted

\* C24: the id of every collected item is in the ledger, and a step of the
\* item loop either appends one item and adds exactly its id, which was not
\* in the ledger, or leaves both the result and the ledger as they were:
\* a handle that is skipped, yields no data or no id, fails the acceptance
\* test or fails while it is handled adds nothing.
C24_LedgerFollowsResult ==
  /\ [](\A k \in 1..Len(collectedContent) :
          SetHas(processedTweetIds, TweetIdOf(collectedContent[k].url)))
  /\ [][ItemStep =>
          IF Len(collectedContent') > Len(collectedContent)
          THEN LET id == TweetIdOf(collectedContent'[Len(collectedContent')].url)
               IN /\ Len(collectedContent') = Len(collectedContent) + 1
                  /\ ~SetHas(processedTweetIds, id)
                  /\ Elems(processedTweetIds') = Elems(processedTweetIds) \cup {id}
                  /\ Len(processedTweetIds') = Len(processedTweetIds) + 1
          ELSE /\ collectedContent' = collectedContent
               /\ processedTweetIds' = processedTweetIds]_vars

\* after one item was collected, a tweet with a resolvable id that is not in
\* the ledger failed the acceptance test, and the ledger holds one id
C24_Witness ==
  /\ Len(collectedContent) = 1
  /\ Len(processedTweetIds) = 1
  /\ obs.visited
  /\ ~obs.accepted
  /\ ~obs.known
  /\ ~ExtractTweetData(obs.el).null
  /\ obs.el.url # NoUrl
  /\ obs.el.url.id # 0

\* C25: when a pass that accepted nothing reaches its height test, the test
\* succeeds exactly when the height read in the pass equals the height read
\* in the pass before it, also when that pass accepted an item.
C25_HeightSignalComparesPreviousPass ==
  (/\ pc = "stall"
   /\ hist.prevPassHeight # NoTime
   /\ hist.passAccepted
   /\ ~(validTweetsCount > previousValidCount))
    => (currentHeight = lastHeight <=> currentHeight = hist.prevPassHeight)

FieldOf(el, s) ==
  CASE s = "quote" -> el.quoted
    [] s \in {"links", "linkAttr"} -> el.links
    [] s \in {"images", "imageAttr"} -> el.images
    [] s \in {"videos", "videoAttr"} -> el.videos
    [] OTHER -> <<>>

OptionalSteps ==
  {"quote", "links", "linkAttr", "images", "imageAttr", "videos",
   "videoAttr", "time"}

\* the reads el and tweet agree on every field but the one of step s
OthersAsRead(el, tweet, s) ==
  /\ s = "quote" \/ el.quoted = tweet.quoted
  /\ s \in {"links", "linkAttr"} \/ el.links = tweet.links
  /\ s \in {"images", "imageAttr"} \/ el.images = tweet.images
  /\ s \in {"videos", "videoAttr"} \/ el.videos = tweet.videos
  /\ s = "time" \/ el.timestamp = tweet.timestamp
  /\ el.text = tweet.text
  /\ el.url = tweet.url

\* extraction gives the fields as the reads el show them, without a second
\* attempt; it gives null only when there is neither text nor quoted text
ExtractedAsRead(el, attempts) ==
  LET data == ExtractTweetData(el)
  IN /\ attempts = 1
     /\ data.null <=> (el.text = <<>> /\ el.quoted = <<>>)
     /\ ~data.null =>
          /\ data.links = el.links
          /\ data.images = el.images
          /\ data.videos = el.videos
          /\ data.timestamp = el.timestamp
          /\ data.url = el.url

\* an item with qualifying text and no link, image or video is extracted
\* with empty sequences
TextOnlyExtracted(el) ==
  (/\ WordCount(el.text) >= MIN_TOTAL_WORDS
   /\ el.links = <<>> /\ el.images = <<>> /\ el.videos = <<>>)
    => LET data == ExtractTweetData(el)
       IN /\ ~data.null
          /\ data.links = <<>> /\ data.images = <<>> /\ data.videos = <<>>

\* C29: when the read of an optional field (quoted text, links, images,
\* videos, timestamp) fails, extraction does not throw, that field is at its
\* empty default and the other fields are as read; an item with qualifying
\* text and no images, videos or links is extracted with empty sequences.
C29_FailedFieldIsEmpty ==
  obs.visited =>
    /\ TextOnlyExtracted(obs.el)
    /\ obs.stale \in OptionalSteps =>
         /\ ExtractedAsRead(obs.el, obs.attempts)
         /\ OthersAsRead(obs.el, obs.tweet, obs.stale)
         /\ obs.stale = "time" => obs.el.timestamp = ""
         /\ obs.stale # "time" => FieldOf(obs.el, obs.stale) = <<>>

\* C29 as the code has it: the field whose read failed holds what was read of
\* it before the failure, which is nothing for the quoted text, the
\* timestamp and a failed findElements, and the entries before the failing
\* one for a getAttribute in the loop over links, images or videos.
C29_FailedFieldKeepsWhatWasRead ==
  obs.visited =>
    /\ TextOnlyExtracted(obs.el)
    /\ obs.stale \in OptionalSteps =>
         /\ ExtractedAsRead(obs.el, obs.attempts)
         /\ OthersAsRead(obs.el, obs.tweet, obs.stale)
         /\ obs.stale = "time" => obs.el.timestamp = ""
         /\ obs.stale \in {"quote", "links", "images", "videos"} =>
              FieldOf(obs.el, obs.stale) = <<>>
         /\ obs.stale \in {"linkAttr", "imageAttr", "videoAttr"} =>
              /\ IsPrefix(FieldOf(obs.el, obs.stale),
                          FieldOf(obs.tweet, obs.stale))
              /\ FieldOf(obs.tweet, obs.stale) # <<>> =>
                   Len(FieldOf(obs.el, obs.stale))
                     < Len(FieldOf(obs.tweet, obs.stale))

\* the read of the second photo of a tweet failed, the item was extracted
\* with its first photo and its links, and collected
C29_Witness ==
  /\ obs.visited
  /\ obs.stale = "imageAttr"
  /\ Len(obs.tweet.images) = 2
  /\ ExtractTweetData(obs.el).images = <<"photo">>
  /\ Len(ExtractTweetData(obs.el).links) = 2
  /\ obs.accepted

\* C31: a collected item none of whose tweets has an image, a video or a
\* link other than its own permalink has a combined text of at least
\* MIN_TOTAL_WORDS words.
C31_WordThresholdEffective ==
  \A k \in 1..Len(collectedContent) :
    LET tw == collectedContent[k].tweets
    IN (\A j \in 1..Len(tw) :
          /\ tw[j].images = <<>>
          /\ tw[j].videos = <<>>
          /\ \A l \in 1..Len(tw[j].links) : tw[j].links[l] = tw[j].url)
         => WordCount(CombinedText(tw)) >= MIN_TOTAL_WORDS

\* C32: a post appended as a non-first segment of a collected item is not
\* the head of an item collected later in the same findContent invocation.
C32_PostInAtMostOneItem ==
  \A k \in 1..Len(collectedContent) :
    \A j \in 2..Len(collectedContent[k].tweets) :
      \A m \in (k + 1)..Len(collectedContent) :
        TweetIdOf(collectedContent[k].tweets[j].url)
          # TweetIdOf(collectedContent[m].url)

Continues(head, sib) ==
  /\ sib.url # NoUrl
  /\ sib.url.author = head.url.author
  /\ sib.text # <<>> \/ sib.quoted # <<>>

\* the length of the maximal run of continuing siblings right behind the head
RunLength(head, siblings) ==
  CHOOSE k \in 0..Len(siblings) :
    /\ \A j \in 1..k : Continues(head, siblings[j])
    /\ k < Len(siblings) => ~Continues(head, siblings[k + 1])

\* C14: the thread collected for a head is the head followed by exactly the
\* maximal run of siblings, right behind it and in document order, that have
\* the author of the head and text; the walk stops at the first sibling of
\* another author, without permalink or without text, or at the end of the
\* siblings.
C14_ThreadIsMaximalRun ==
  walk.done =>
    LET k == RunLength(walk.head, walk.siblings)
    IN /\ Len(walk.threadTweets) = k + 1
       /\ walk.threadTweets[1] = ExtractTweetData(walk.head)
       /\ \A j \in 1..k :
             walk.threadTweets[j + 1] = ExtractTweetData(walk.siblings[j])

\* three tweets of one author followed by a tweet of another author gave a
\* thread of exactly 3 segments
C14_Witness ==
  /\ walk.done
  /\ walk.head = FeedTweet(1)
  /\ walk.siblings = <<FeedTweet(2), FeedTweet(3), ForeignReply>>
  /\ Len(walk.threadTweets) = 3

(***************************************************************************)
(* Properties of the compaction of the ledgers.                            *)
(***************************************************************************)
\* the ledger clearProcessedIds has just returned for
ClearedLedger == IF cleared = "tracker" THEN trackerIds ELSE processedTweetIds

\* C15: when clearProcessedIds has run on a ledger of n > MAX_PROCESSED_IDS
\* ids, the ledger holds the ceil(n/2) ids inserted last, in insertion order,
\* and none of the floor(n/2) ids inserted before them.
C15_KeepsRecentHalf ==
  (cleared # "none" /\ Len(ledgerBefore) > MAX_PROCESSED_IDS) =>
    LET n == Len(ledgerBefore)
        kept == (n + 1) \div 2
    IN /\ Len(ClearedLedger) = kept
       /\ \A j \in 1..kept : ClearedLedger[j] = ledgerBefore[n - kept + j]
       /\ \A j \in 1..(n - kept) : ~SetHas(ClearedLedger, ledgerBefore[j])

\* clearProcessedIds has just compacted a ledger of an odd number of ids
C15_Witness ==
  /\ cleared # "none"
  /\ Len(ledgerBefore) > MAX_PROCESSED_IDS
  /\ Len(ledgerBefore) % 2 = 1

\* C16: right after clearProcessedIds has returned, the ledger holds at most
\* MAX_PROCESSED_IDS ids, in the service and in the list tracker.
C16_LedgerWithinCeiling ==
  cleared # "none" => Len(ClearedLedger) <= MAX_PROCESSED_IDS

\* C16 as the code has it: right after clearProcessedIds has returned, the
\* ledger holds at most MAX_PROCESSED_IDS ids when it held at most twice
\* MAX_PROCESSED_IDS before the call; the ledger of the service, which grows
\* by at most THREADS_NEEDED ids between two calls, always does.
C16_LedgerWithinCeilingUpToTwice ==
  /\ cleared # "none" /\ Len(ledgerBefore) <= 2 * MAX_PROCESSED_IDS
       => Len(ClearedLedger) <= MAX_PROCESSED_IDS
  /\ cleared = "service"
       => /\ Len(ledgerBefore) <= MAX_PROCESSED_IDS + THREADS_NEEDED
          /\ Len(ClearedLedger) <= MAX_PROCESSED_IDS

\* the service ledger had grown by a full findContent call beyond the ceiling
\* when clearProcessedIds compacted it
C16_Witness ==
  /\ cleared = "service"
  /\ Len(ledgerBefore) = MAX_PROCESSED_IDS + THREADS_NEEDED

(***************************************************************************)
(* Properties of the scheduler.                                            *)
(***************************************************************************)
\* C19: a run in which runDataPipeline failed for a folder after its last
\* retry has still called runDataPipeline for every folder of config.folders
\* when it ends.
C19_LaterFoldersProcessed ==
  \A r \in Runs :
    (runs[r].pc = "done" /\ runs[r].failed # {}) => runs[r].called = 1..NumFolders

\* C20: at most one pipeline run, initial or scheduled, is executing.
C20_OneRunAtATime ==
  Cardinality({r \in Runs : Active(runs[r])}) <= 1

\* a cron tick has fired while the initial run was fetching, and was skipped
C20_Witness ==
  /\ lastTick = "skipped"
  /\ runs[0].pc = "fetch"

\* C21: in the scheduler of cron.js the initial pipeline and the callback of
\* a cron tick are never both between their start and their end.
C21_InitialAndTickNeverConcurrent ==
  ~(Active(runs[0]) /\ \E r \in JsRuns \ {0} : Active(runs[r]))

\* C22: in an attempt of runDataPipeline createMarkdownFileFromTweets is
\* called only after fetchTweets of that attempt returned a list with tweets,
\* and postTweet only after createMarkdownFileFromTweets of that attempt
\* reported success.
C22_StepsInOrder ==
  \A r \in Runs :
    /\ runs[r].pc \in {"upload", "post"} => runs[r].result = "some"
    /\ runs[r].pc = "post" => runs[r].githubResult = "success"
    /\ runs[r].posted # "none" => runs[r].githubResult = "success"

\* postTweet is being awaited in a retry of runDataPipeline
C22_Witness ==
  \E r \in Runs : runs[r].pc = "post" /\ runs[r].retryCount > 0

\* C23: an attempt of runDataPipeline whose fetchTweets returned an empty
\* list ends the call with null: no upload, no announcement, no sleep and no
\* further attempt follow it.
C23_EmptyListReturnsNull ==
  \A r \in Runs :
    /\ runs[r].result = "empty" =>
         /\ runs[r].pc \in {"readme", "done"}
         /\ runs[r].last.outcome = "null"
         /\ runs[r].last.attempts = runs[r].retryCount + 1
    /\ runs[r].last.result = "empty" =>
         /\ runs[r].last.outcome = "null"
         /\ runs[r].last.githubResult = "none"
         /\ runs[r].last.posted = "none"
    /\ runs[r].last.outcome = "null" => runs[r].last.result = "empty"

\* a call of runDataPipeline has returned null on the empty list of its
\* second attempt and the run has gone on to the next folder
C23_Witness ==
  \E r \in Runs :
    /\ runs[r].last.result = "empty"
    /\ runs[r].last.attempts = 2
    /\ runs[r].pc = "fetch"
    /\ runs[r].folder = 2

C37_ExhaustedFetchIsFailedCheck ==
  /\ (trk.pc = "sleep" /\ trk.exhausted)
       => (trk.consecutiveFailures > 0 /\ ~trk.stamped)
  /\ trk.exhaustedRun >= REFRESH_FAILURES
       => ShouldRefreshBrowser(FALSE, trk.consecutiveFailures, FALSE)

\* C38: the body of gracefulShutdown is entered at most once, however many
\* signals and error events arrive, and once it is entered the process
\* exits, also when tracker.cleanup never returns.
C38_ShutdownOnceAndExits ==
  /\ [](shut.sequences <= 1)
  /\ (shut.isShuttingDown ~> shut.pc = "exited")

\* several events have arrived, cleanup has not returned, and the forced
\* exit has ended the process
C38_Witness ==
  /\ shut.signals > 1
  /\ shut.sequences = 1
  /\ shut.exitBy = "force"

\* C39: the number getNextFileNumber returns is greater than the number of
\* every resources file in the folder, and the upload does not target the
\* path of a file that is there already.
C39_NextNumberIsFresh ==
  gh.result # "none"
    => /\ \A name \in gh.before : gh.nextNumber > ParseInt(name)
       /\ ~gh.targetedExisting

\* C35: isJobRunning is true exactly while a run is executing: it is false
\* again when a run ends, by completing or by throwing, and a cron tick is
\* skipped only while a run is executing.
C35_FlagFollowsRun ==
  /\ [](isJobRunning <=> \E r \in Runs : Active(runs[r]))
  /\ [][\A r \in Runs :
          (Active(runs[r]) /\ ~Active(runs'[r])) => ~isJobRunning']_vars
  /\ [][(runs' = runs /\ scheduledJob' = scheduledJob
           /\ lastTick' = "skipped")
          => \E r \in Runs : Active(runs[r])]_vars

\* the initial run has thrown out of its folder loop, the flag is cleared,
\* and a tick was skipped before
C35_Witness ==
  /\ runs[0].pc = "done"
  /\ runs[0].failed # {}
  /\ ~isJobRunning
  /\ lastTick = "skipped"

\* C34: once stopCronJob has been called scheduledJob stays null and no run
\* of the pipeline is started, also when a run was executing at the stop
\* and ends after it.
C34_StoppedStaysStopped ==
  /\ [](stopCalled => scheduledJob = "null")
  /\ [][stopCalled =>
          \A r \in Runs : runs'[r].pc = "init" => runs[r].pc = "init"]_vars

(***************************************************************************)
(* Properties of fetchTweets.                                              *)
(***************************************************************************)
\* C27: a call of fetchTweets makes at most maxRetries attempts; behind every
\* failed attempt but the last the session is torn down, so that the next
\* attempt starts without driver and runs init; when attempt maxRetries has
\* failed the call throws, and it never ends without a value otherwise.
C27_BoundedAttemptsWithTeardown ==
  /\ fetch.attempt <= maxRetries
  /\ fetch.failures <= maxRetries
  /\ fetch.outcome # "undefined"
  /\ fetch.pc = "thrown" <=> fetch.failures = maxRetries
  /\ fetch.pc = "thrown" => fetch.outcome = "error"
  /\ fetch.pc = "returned" => fetch.outcome = "list"
  /\ fetch.cleanups = {k \in 1..fetch.failures : k < maxRetries}
  /\ (fetch.pc = "ensure" /\ fetch.attempt > 1) =>
        driver = "null" /\ ~isInitialized
  /\ \A k \in 2..fetch.attempt :
        (k < fetch.attempt \/ fetch.pc # "ensure") => k \in fetch.inits

\* the call has thrown after maxRetries failed attempts, each but the first
\* on a session it had initialised anew
C27_Witness ==
  /\ fetch.pc = "thrown"
  /\ fetch.failures = maxRetries
  /\ fetch.attempt = maxRetries
  /\ fetch.inits = 1..maxRetries

\* C30: cleanup and init leave the ledger as it is: every id findContent has
\* accepted is still in the ledger in every later attempt and call, none is
\* accepted a second time, and a step of fetchTweets outside findContent
\* does not change the ledger.
C30_LedgerSurvivesReinit ==
  /\ [](fetch.accepted \subseteq Elems(processedTweetIds))
  /\ [](~fetch.acceptedTwice)
  /\ [][fetch.pc \in {"ensure", "verify", "navigate"}
          => processedTweetIds' = processedTweetIds]_vars

\* an id accepted before a failed attempt has been met again and rejected
\* after the session was torn down and initialised anew
C30_Witness ==
  /\ fetch.rejectedAfterReinit
  /\ fetch.cleanups # {}
  /\ driver = "up"

====
